---- MODULE Spec2Model ----
(***************************************************************************)
(* Model of the sales ETL pipeline: the Cleaner, Enricher and Aggregator   *)
(* of src/src/etl/transform.py, the Loader of src/src/etl/load.py, the two *)
(* drivers of a run (src/dags/sales_etl_dag.py, src/src/etl_pipeline.py),  *)
(* two runs replacing one aggregate table at the same time, and the        *)
(* connection scope of src/src/database/connection.py.                     *)
(*                                                                         *)
(* Python values are tagged records [tag, n, s]; strings are sequences of  *)
(* one-character strings so that strip(), title(), float(), int() and      *)
(* strptime() are computed character by character.  Python floats are      *)
(* kept in halves (h = 2 * value) with a significand of FloatPrecision     *)
(* bits, so that sums and products round as Python's do.                   *)
(***************************************************************************)
EXTENDS Integers, Sequences, FiniteSets, TLC

\* ------------------------------------------------------------------ bounds
MaxLen == 2        \* longest raw input of the Cleaner / Enricher
MaxAggLen == 3     \* longest enriched input of the Aggregator
MaxLoadLen == 2    \* longest row list handed to a Loader call
MaxPre == 2        \* most rows already stored when a Loader call starts

\* ---------------------------------------------------------- Python values
PyInt(n) == [tag |-> "int", n |-> n, s |-> <<>>]
PyFloat(h) == [tag |-> "float", n |-> h, s |-> <<>>]
PyStr(s) == [tag |-> "str", n |-> 0, s |-> s]
PyNone == [tag |-> "None", n |-> 0, s |-> <<>>]
PyNaN == [tag |-> "nan", n |-> 0, s |-> <<>>]
PyInf == [tag |-> "inf", n |-> 0, s |-> <<>>]
Absent == [tag |-> "absent", n |-> 0, s |-> <<>>]

\* stand-in for the largest integer float() converts (about 1.8e308)
FloatMaxInt == 1000000

\* a Python float: a finite number of halves, nan, inf or -inf
FNum(h) == [k |-> "num", h |-> h]
FNaN == [k |-> "nan", h |-> 0]
FInf == [k |-> "inf", h |-> 0]
FNegInf == [k |-> "ninf", h |-> 0]

\* stand-in for the 53 bits of the significand of a Python float: a finite
\* float holds FloatPrecision significant bits, and the result of a
\* conversion or an arithmetic operation is the nearest such number, ties
\* going to the even significand
FloatPrecision == 8
RECURSIVE Pow2(_)
Pow2(n) == IF n = 0 THEN 1 ELSE 2 * Pow2(n - 1)
\* a >= 0 rounded to a multiple of the first of u, 2u, 4u, ... that leaves
\* FloatPrecision bits
RECURSIVE RoundMagnitude(_, _)
RoundMagnitude(a, u) ==
    IF a \div u < Pow2(FloatPrecision)
    THEN LET q == a \div u
             r == a % u
         IN  IF 2 * r < u \/ (2 * r = u /\ q % 2 = 0) THEN q * u ELSE (q + 1) * u
    ELSE RoundMagnitude(a, 2 * u)
RoundFloat(h) == IF h < 0 THEN -RoundMagnitude(-h, 1) ELSE RoundMagnitude(h, 1)

Ok(v) == [exc |-> "none", val |-> v]
Raise(e) == [exc |-> e, val |-> 0]

\* ------------------------------------------------------------- characters
LowerLetters == <<"a","b","c","d","e","f","g","h","i","j","k","l","m",
                  "n","o","p","q","r","s","t","u","v","w","x","y","z">>
UpperLetters == <<"A","B","C","D","E","F","G","H","I","J","K","L","M",
                  "N","O","P","Q","R","S","T","U","V","W","X","Y","Z">>
Digits == <<"0","1","2","3","4","5","6","7","8","9">>

IsLower(c) == \E i \in 1..26 : LowerLetters[i] = c
IsUpper(c) == \E i \in 1..26 : UpperLetters[i] = c
IsCased(c) == IsLower(c) \/ IsUpper(c)
IsDigit(c) == \E i \in 1..10 : Digits[i] = c
IsSpace(c) == c = " "
ToUpper(c) == IF IsLower(c) THEN UpperLetters[CHOOSE i \in 1..26 : LowerLetters[i] = c] ELSE c
ToLower(c) == IF IsUpper(c) THEN LowerLetters[CHOOSE i \in 1..26 : UpperLetters[i] = c] ELSE c
DigitVal(c) == (CHOOSE i \in 1..10 : Digits[i] = c) - 1

\* str.strip(): drop leading and trailing whitespace
RECURSIVE LStrip(_)
LStrip(s) == IF s # <<>> /\ IsSpace(Head(s)) THEN LStrip(Tail(s)) ELSE s
RECURSIVE RStrip(_)
RStrip(s) == IF s # <<>> /\ IsSpace(s[Len(s)]) THEN RStrip(SubSeq(s, 1, Len(s) - 1)) ELSE s
Strip(s) == RStrip(LStrip(s))

\* str.title(): a cased character is upper-cased when the character before
\* it is not cased, lower-cased otherwise
Title(s) == [i \in 1..Len(s) |->
               IF IsCased(s[i])
               THEN IF i > 1 /\ IsCased(s[i-1]) THEN ToLower(s[i]) ELSE ToUpper(s[i])
               ELSE s[i]]

\* str.lower()
LowerStr(s) == [i \in 1..Len(s) |-> ToLower(s[i])]

AllDigits(s) == s # <<>> /\ \A i \in 1..Len(s) : IsDigit(s[i])
RECURSIVE DigitsVal(_)
DigitsVal(s) == IF s = <<>> THEN 0
                ELSE 10 * DigitsVal(SubSeq(s, 1, Len(s) - 1)) + DigitVal(s[Len(s)])

RECURSIVE NatToChars(_)
NatToChars(n) == IF n < 10 THEN <<Digits[n + 1]>>
                 ELSE NatToChars(n \div 10) \o <<Digits[(n % 10) + 1]>>
IntToChars(n) == IF n < 0 THEN <<"-">> \o NatToChars(-n) ELSE NatToChars(n)
Pad2(n) == IF n < 10 THEN <<"0">> \o NatToChars(n) ELSE NatToChars(n)

\* ---------------------------------------------------------- str/float/int
\* str(x)
PyStrOf(v) ==
    CASE v.tag = "str" -> v.s
      [] v.tag = "None" -> <<"N","o","n","e">>
      [] v.tag = "int" -> IntToChars(v.n)
      [] v.tag = "float" ->
           (IF v.n < 0 THEN <<"-">> ELSE <<>>)
           \o NatToChars((IF v.n < 0 THEN -v.n ELSE v.n) \div 2)
           \o (IF v.n % 2 = 0 THEN <<".","0">> ELSE <<".","5">>)
      [] v.tag = "nan" -> <<"n","a","n">>
      [] v.tag = "inf" -> <<"i","n","f">>

\* the sign and the unsigned body of a numeric literal
SignOf(t) == IF t # <<>> /\ t[1] = "-" THEN -1 ELSE 1
BodyOf(t) == IF t # <<>> /\ (t[1] = "-" \/ t[1] = "+") THEN Tail(t) ELSE t

\* float(x): strings are stripped, then read as [sign] digits | nan | inf |
\* infinity (case-insensitive); the strings drawn hold no '.', 'e' or '_'
FloatOfStr(s) ==
    LET t == Strip(s)
        b == LowerStr(BodyOf(t))
    IN  IF AllDigits(b) THEN Ok(FNum(RoundFloat(SignOf(t) * 2 * DigitsVal(b))))
        ELSE IF b = <<"n","a","n">> THEN Ok(FNaN)
        ELSE IF b = <<"i","n","f">> \/ b = <<"i","n","f","i","n","i","t","y">>
             THEN Ok(IF SignOf(t) = 1 THEN FInf ELSE FNegInf)
        ELSE Raise("ValueError")

PyFloatOf(v) ==
    CASE v.tag = "int" -> IF v.n >= FloatMaxInt \/ v.n <= -FloatMaxInt
                          THEN Raise("OverflowError") ELSE Ok(FNum(RoundFloat(2 * v.n)))
      [] v.tag = "float" -> Ok(FNum(v.n))
      [] v.tag = "nan" -> Ok(FNaN)
      [] v.tag = "inf" -> Ok(FInf)
      [] v.tag = "str" -> FloatOfStr(v.s)
      [] v.tag = "None" -> Raise("TypeError")

\* int(x): floats truncate toward zero, nan and inf cannot be converted
PyIntOf(v) ==
    CASE v.tag = "int" -> Ok(v.n)
      [] v.tag = "float" -> Ok(IF v.n >= 0 THEN v.n \div 2 ELSE -((-v.n) \div 2))
      [] v.tag = "nan" -> Raise("ValueError")
      [] v.tag = "inf" -> Raise("OverflowError")
      [] v.tag = "str" ->
           LET t == Strip(v.s)
               b == BodyOf(t)
           IN  IF AllDigits(b) THEN Ok(SignOf(t) * DigitsVal(b)) ELSE Raise("ValueError")
      [] v.tag = "None" -> Raise("TypeError")

\* float comparisons and products as Python computes them
FloatLeqZero(f) == (f.k = "num" /\ f.h <= 0) \/ f.k = "ninf"
FloatGtZero(f) == (f.k = "num" /\ f.h > 0) \/ f.k = "inf"
FloatTimesInt(f, q) ==
    CASE f.k = "num" -> FNum(RoundFloat(f.h * q))
      [] f.k = "nan" -> FNaN
      [] f.k = "inf" -> IF q > 0 THEN FInf ELSE IF q < 0 THEN FNegInf ELSE FNaN
      [] f.k = "ninf" -> IF q > 0 THEN FNegInf ELSE IF q < 0 THEN FInf ELSE FNaN

\* ------------------------------------------------- datetime.strptime/strftime
IsLeap(y) == (y % 4 = 0 /\ y % 100 # 0) \/ y % 400 = 0
DaysInMonth(y, m) ==
    IF m = 2 THEN (IF IsLeap(y) THEN 29 ELSE 28)
    ELSE IF m \in {4, 6, 9, 11} THEN 30 ELSE 31

\* %m : 1[0-2] | 0[1-9] | [1-9]
MatchMonth(t) ==
    \/ Len(t) = 2 /\ t[1] = "1" /\ t[2] \in {"0","1","2"}
    \/ Len(t) = 2 /\ t[1] = "0" /\ IsDigit(t[2]) /\ t[2] # "0"
    \/ Len(t) = 1 /\ IsDigit(t[1]) /\ t[1] # "0"
\* %d : 3[0-1] | [1-2]\d | 0[1-9] | [1-9] | " "[1-9]
MatchDay(t) ==
    \/ Len(t) = 2 /\ t[1] = "3" /\ t[2] \in {"0","1"}
    \/ Len(t) = 2 /\ t[1] \in {"1","2"} /\ IsDigit(t[2])
    \/ Len(t) = 2 /\ t[1] \in {"0"," "} /\ IsDigit(t[2]) /\ t[2] # "0"
    \/ Len(t) = 1 /\ IsDigit(t[1]) /\ t[1] # "0"
FieldVal(t) == DigitsVal(SelectSeq(t, IsDigit))

\* datetime.strptime(x, '%Y-%m-%d'): TypeError unless x is a str; ValueError
\* unless the whole string matches \d\d\d\d-%m-%d and names a calendar day
Strptime(v) ==
    IF v.tag # "str" THEN Raise("TypeError")
    ELSE LET s == v.s
             Splits == {p \in (1..2) \X (1..2) :
                          /\ Len(s) = 4 + 1 + p[1] + 1 + p[2]
                          /\ AllDigits(SubSeq(s, 1, 4))
                          /\ s[5] = "-"
                          /\ MatchMonth(SubSeq(s, 6, 5 + p[1]))
                          /\ s[6 + p[1]] = "-"
                          /\ MatchDay(SubSeq(s, 7 + p[1], Len(s)))}
         IN  IF Splits = {} THEN Raise("ValueError")
             ELSE LET p == CHOOSE q \in Splits : TRUE
                      y == DigitsVal(SubSeq(s, 1, 4))
                      m == FieldVal(SubSeq(s, 6, 5 + p[1]))
                      d == FieldVal(SubSeq(s, 7 + p[1], Len(s)))
                  IN  IF y = 0 \/ d > DaysInMonth(y, m) THEN Raise("ValueError")
                      ELSE Ok([year |-> y, month |-> m, day |-> d])

\* sale_date.strftime('%Y-%m')
StrftimeYm(dt) == NatToChars(dt.year) \o <<"-">> \o Pad2(dt.month)
QuarterOf_mut(dt) == <<"Q">> \o NatToChars((dt.month \div 3) + 1)
\* f"Q{(sale_date.month-1)//3 + 1}"
QuarterOf(dt) == <<"Q">> \o NatToChars(((dt.month - 1) \div 3) + 1)

\* ------------------------------------------------------------------ state
VARIABLES
    c_data,            \* clean_sales_data: the raw records passed in
    c_idx,             \* clean_sales_data: index of the next record of the loop
    cleaned_data,      \* clean_sales_data: records kept so far
    invalid_records,   \* clean_sales_data: records skipped so far
    c_pc,              \* clean_sales_data: "idle", "loop", "returned", "raised"
    e_data,            \* add_calculated_fields: the list passed in, changed in place
    e_data0,           \* add_calculated_fields: the list as it was when passed in
    e_idx,             \* add_calculated_fields: index of the next record of the loop
    e_pc,              \* add_calculated_fields: "idle", "loop", "returned", "raised"
    a_data,            \* aggregate_sales_by_*: the enriched records passed in
    a_idx,             \* aggregate_sales_by_*: index of the next record of the loop
    region_aggregates, \* aggregate_sales_by_region: the dict, rows in insertion order
    region_result,     \* aggregate_sales_by_region: the list returned
    product_aggregates, \* aggregate_sales_by_product: the dict, rows in insertion order
    product_result,    \* aggregate_sales_by_product: the list returned
    a_pc,              \* "idle", "region_loop", "product_loop", "returned"
    tbl_sales_data,          \* the rows of table sales_data, oldest first
    tbl_region_aggregates,   \* the rows of table region_aggregates
    tbl_product_aggregates,  \* the rows of table product_aggregates
    tbl0,              \* the three tables as they were when the Loader was called
    commands,          \* the commands the Loader call has sent to execute_command
    l_op,              \* the Loader operation called: "sales", "region" or "product"
    l_data,            \* its data argument
    confirm_delete,    \* its confirm_delete argument
    l_idx,             \* index of the next record of its insert loop
    loaded_count,      \* its loaded_count
    l_pc,              \* "idle", "start", "insert", "returned", "raised"
    l_exc,             \* the exception that left the call, "none" if none
    p_entry,           \* the driver of the run: "dag" (sales_etl_dag) or "script"
                       \* (run_etl_pipeline), "none" outside a run
    p_pc,              \* the phase of the run: "idle", "extract", "clean", "enrich",
                       \* "aggregate", "load", "load_sales", "load_region",
                       \* "load_product", "validate", "health_check", "success", "failed"
    p_try,             \* the try number of the DAG task in progress
    p_exc,             \* the exception raised in the phase in progress, "none" if none
    p_log,             \* the stages that have run to completion, in order
    p_store0,          \* the three tables as they were when the load phase began
    summary,           \* the summary get_data_summary returned last, NoSummary if none
    r_op,              \* concurrent runs: the Loader call both make, "region" or
                       \* "product" ("none" outside)
    r_table,           \* concurrent runs: the aggregate table they share
    r_data,            \* concurrent runs: the aggregate rows each run was given
    r_pc,              \* concurrent runs: "start", "insert", "returned", "raised"
    r_idx,             \* concurrent runs: index of the next record of each run's loop
    r_events,          \* concurrent runs: the begin and end of each call, in order
    db_kind,           \* execute_query / execute_command: which of the two is in
                       \* progress, "query" or "command" ("none" before the first)
    db_pc,             \* position in the call: "idle", "connect", "cursor", "execute",
                       \* "commit", "cursor_except", "cursor_finally",
                       \* "connection_except", "connection_finally", "done"
    db_exc,            \* the exception in flight: "none", "psycopg2.Error" or "other"
    db_conn,           \* the local variable connection: index in db_conns, 0 is None
    db_conns,          \* every connection opened so far: open or not, its cursor, its
                       \* transaction ("none", "active", "failed", "aborted",
                       \* "committed", "rolledback", "discarded"), the statements
                       \* executed on it, the call that opened it
    db_store,          \* the calls whose statement the store holds committed
    db_calls,          \* number of calls begun
    db_outcome         \* how the last call ended: "none", "returned", "raised"

c_vars == <<c_data, c_idx, cleaned_data, invalid_records, c_pc>>
e_vars == <<e_data, e_data0, e_idx, e_pc>>
a_vars == <<a_data, a_idx, region_aggregates, region_result, product_aggregates,
            product_result, a_pc>>
tbl_vars == <<tbl_sales_data, tbl_region_aggregates, tbl_product_aggregates>>
l_vars == <<tbl_vars, tbl0, commands, l_op, l_data, confirm_delete, l_idx, loaded_count,
            l_pc, l_exc>>
p_vars == <<p_entry, p_pc, p_try, p_exc, p_log, p_store0, summary>>
r_vars == <<r_op, r_table, r_data, r_pc, r_idx, r_events>>
d_vars == <<db_kind, db_pc, db_exc, db_conn, db_conns, db_store, db_calls, db_outcome>>
y_vars == <<r_vars, d_vars>>
x_vars == <<p_vars, y_vars>>
vars == <<c_vars, e_vars, a_vars, l_vars, x_vars>>

\* ------------------------------------------------------------ raw records
Chars_laptop == <<"l","a","p","t","o","p">>
Chars_MOUSE == <<" ","M","O","U","S","E"," ">>
Chars_north == <<"n","o","r","t","h">>
Chars_SOUTH == <<" ","S","O","U","T","H">>
Chars_c1 == <<"c","1">>
Chars_abc == <<"a","b","c">>
Chars_100 == <<"1","0","0">>
Chars_nan == <<"n","a","n">>
Chars_3 == <<" ","3">>
Date_2024_03_17 == <<"2","0","2","4","-","0","3","-","1","7">>
Date_2024_3_7 == <<"2","0","2","4","-","3","-","7">>
Date_2024_12_05 == <<"2","0","2","4","-","1","2","-","0","5">>
Date_2023_02_29 == <<"2","0","2","3","-","0","2","-","2","9">>
Date_2024_13_01 == <<"2","0","2","4","-","1","3","-","0","1">>
Date_17_03_2024 == <<"1","7","/","0","3","/","2","0","2","4">>

\* a well-formed raw record, as extract_sample_sales_data builds them
BaseRaw == [product_name |-> PyStr(Chars_laptop), sales_amount |-> PyInt(100),
            sale_date |-> PyStr(Date_2024_03_17), region |-> PyStr(Chars_north),
            customer_id |-> PyStr(Chars_c1), quantity |-> PyInt(2)]

ProductValues == {PyStr(Chars_MOUSE), PyNone, Absent}
AmountValues == {PyInt(50), PyInt(0), PyInt(-5), PyFloat(5), PyStr(Chars_100),
                 PyStr(Chars_abc), PyStr(Chars_nan), PyNaN, PyInf, PyNone,
                 PyInt(FloatMaxInt), Absent}
DateValues == {PyStr(Date_2024_3_7), PyStr(Date_2024_12_05), PyStr(Date_2023_02_29),
               PyStr(Date_2024_13_01), PyStr(Date_17_03_2024), PyNone, PyInt(20240317),
               Absent}
RegionValues == {PyStr(Chars_SOUTH), Absent}
QuantityValues == {PyInt(0), PyInt(-3), PyInt(5), PyFloat(1), PyFloat(5), PyStr(Chars_3),
                   PyStr(Chars_abc), PyNone, PyNaN, PyInf, Absent}

\* the raw records drawn: the well-formed record and every record that
\* differs from it in one field, plus two records wrong in two fields
RawRecords ==
    {BaseRaw}
    \cup {[BaseRaw EXCEPT !.product_name = v] : v \in ProductValues}
    \cup {[BaseRaw EXCEPT !.sales_amount = v] : v \in AmountValues}
    \cup {[BaseRaw EXCEPT !.sale_date = v] : v \in DateValues}
    \cup {[BaseRaw EXCEPT !.region = v] : v \in RegionValues}
    \cup {[BaseRaw EXCEPT !.quantity = v] : v \in QuantityValues}
    \cup {[BaseRaw EXCEPT !.customer_id = Absent]}
    \cup {[BaseRaw EXCEPT !.quantity = PyInt(0), !.sale_date = PyStr(Date_2024_13_01)],
          [BaseRaw EXCEPT !.quantity = PyInt(-3), !.sales_amount = PyInt(0)]}

SeqsUpTo(S, n) == UNION {[1..k -> S] : k \in 0..n}

\* ---------------------------------------------------------------- Cleaner
\* record.get(key, default)
Get(v, default) == IF v = Absent THEN default ELSE v

\* one iteration of the loop of clean_sales_data: "keep" with the cleaned
\* record, "invalid" (skipped and counted) or "raise" (the exception leaves
\* the function)
CleanRecord(record) ==
    LET amount == PyFloatOf(record.sales_amount)
        qty == PyIntOf(Get(record.quantity, PyInt(1)))
        caught(e) == e \in {"ValueError", "TypeError"}
        cleaned_record ==
            [product_name |-> Title(Strip(PyStrOf(record.product_name))),
             sales_amount |-> amount.val,
             sale_date |-> record.sale_date,
             region |-> Title(Strip(PyStrOf(Get(record.region, PyStr(<<"U","n","k","n","o","w","n">>))))),
             customer_id |-> Strip(PyStrOf(Get(record.customer_id, PyStr(<<>>)))),
             quantity |-> IF qty.val <= 0 THEN 1 ELSE qty.val]
        parsed == Strptime(record.sale_date)
    IN  IF Absent \in {record.product_name, record.sales_amount, record.sale_date}
        THEN [kind |-> "invalid", exc |-> "none"]
        ELSE IF amount.exc # "none"
        THEN [kind |-> IF caught(amount.exc) THEN "invalid" ELSE "raise", exc |-> amount.exc]
        ELSE IF qty.exc # "none"
        THEN [kind |-> IF caught(qty.exc) THEN "invalid" ELSE "raise", exc |-> qty.exc]
        ELSE IF FloatLeqZero(amount.val)
        THEN [kind |-> "invalid", exc |-> "none"]
        ELSE IF parsed.exc # "none"
        THEN [kind |-> "invalid", exc |-> parsed.exc]
        ELSE [kind |-> "keep", exc |-> "none", rec |-> cleaned_record]

CleanerInit ==
    /\ c_data \in SeqsUpTo(RawRecords, MaxLen)
    /\ c_idx = 1
    /\ cleaned_data = <<>>
    /\ invalid_records = 0
    /\ c_pc = "loop"

\* for record in data: ... (one iteration)
clean_sales_data_step ==
    /\ c_pc = "loop"
    /\ c_idx <= Len(c_data)
    /\ LET out == CleanRecord(c_data[c_idx])
       IN  /\ cleaned_data' = IF out.kind = "keep" THEN Append(cleaned_data, out.rec)
                              ELSE cleaned_data
           /\ invalid_records' = IF out.kind = "invalid" THEN invalid_records + 1
                                 ELSE invalid_records
           /\ c_pc' = IF out.kind = "raise" THEN "raised" ELSE "loop"
           /\ c_idx' = IF out.kind = "raise" THEN c_idx ELSE c_idx + 1
    /\ UNCHANGED <<c_data, e_vars, a_vars, l_vars, x_vars>>

\* return cleaned_data
clean_sales_data_return ==
    /\ c_pc = "loop"
    /\ c_idx > Len(c_data)
    /\ c_pc' = "returned"
    /\ UNCHANGED <<c_data, c_idx, cleaned_data, invalid_records, e_vars, a_vars, l_vars, x_vars>>

CleanerIdle ==
    /\ c_data = <<>>
    /\ c_idx = 0
    /\ cleaned_data = <<>>
    /\ invalid_records = 0
    /\ c_pc = "idle"

\* --------------------------------------------------------------- Enricher
\* record[key] = value for each key of upd
DictSet(record, upd) == upd @@ record

\* one iteration of the loop of add_calculated_fields: the record after the
\* iteration and the exception that leaves the function, if any
EnrichRecord(record) ==
    LET r1 == DictSet(record, [total_value |->
                                 FloatTimesInt(record.sales_amount, record.quantity)])
        parsed == IF "sale_date" \in DOMAIN record THEN Strptime(record.sale_date)
                  ELSE Raise("KeyError")
    IN  IF parsed.exc = "none"
        THEN [exc |-> "none",
              rec |-> DictSet(r1, [sale_month |-> PyStr(StrftimeYm(parsed.val)),
                                   sale_year |-> PyInt(parsed.val.year),
                                   sale_quarter |-> PyStr(QuarterOf(parsed.val))])]
        ELSE IF parsed.exc = "ValueError"
        THEN [exc |-> "none",
              rec |-> DictSet(r1, [sale_month |-> PyNone, sale_year |-> PyNone,
                                   sale_quarter |-> PyNone])]
        ELSE [exc |-> parsed.exc, rec |-> r1]

\* the records the Enricher is given: what the Cleaner keeps of the raw
\* records, and, for use without the Cleaner, records whose sale_date is not
\* a date string
CleanOutputs == {CleanRecord(r).rec : r \in {x \in RawRecords : CleanRecord(x).kind = "keep"}}
BaseClean == CleanRecord(BaseRaw).rec
UncleanedRecords ==
    {[BaseClean EXCEPT !.sale_date = v] :
        v \in {PyNone, PyInt(20240317), PyStr(Date_2023_02_29), PyStr(Date_17_03_2024),
               PyStr(<<>>)}}
EnricherInputs == CleanOutputs \cup UncleanedRecords

EnricherInit ==
    /\ e_data \in SeqsUpTo(EnricherInputs, MaxLen)
    /\ e_data0 = e_data
    /\ e_idx = 1
    /\ e_pc = "loop"

EnricherIdle ==
    /\ e_data = <<>>
    /\ e_data0 = <<>>
    /\ e_idx = 0
    /\ e_pc = "idle"

\* for record in data: ... (one iteration)
add_calculated_fields_step ==
    /\ e_pc = "loop"
    /\ e_idx <= Len(e_data)
    /\ LET out == EnrichRecord(e_data[e_idx])
       IN  /\ e_data' = [e_data EXCEPT ![e_idx] = out.rec]
           /\ e_pc' = IF out.exc = "none" THEN "loop" ELSE "raised"
           /\ e_idx' = IF out.exc = "none" THEN e_idx + 1 ELSE e_idx
    /\ UNCHANGED <<e_data0, c_vars, a_vars, l_vars, x_vars>>

\* return data
add_calculated_fields_return ==
    /\ e_pc = "loop"
    /\ e_idx > Len(e_data)
    /\ e_pc' = "returned"
    /\ UNCHANGED <<e_data, e_data0, e_idx, c_vars, a_vars, l_vars, x_vars>>

\* ------------------------------------------------------------- Aggregator
\* float addition (the sum is rounded) and the comparison the sort makes
FloatAdd(f, g) ==
    IF f.k = "num" /\ g.k = "num" THEN FNum(RoundFloat(f.h + g.h))
    ELSE IF f.k = "nan" \/ g.k = "nan" THEN FNaN
    ELSE IF f.k = "num" THEN g
    ELSE IF g.k = "num" \/ g.k = f.k THEN f
    ELSE FNaN
FloatGeq(f, g) ==
    /\ f.k # "nan" /\ g.k # "nan"
    /\ \/ f.k = "inf" \/ g.k = "ninf"
       \/ f.k = "num" /\ g.k = "num" /\ f.h >= g.h

RECURSIVE GCD(_, _)
GCD(x, y) == IF y = 0 THEN x ELSE GCD(y, x % y)
\* the quotient num/den of two non-negative integers, in lowest terms
Ratio(num, den) == LET g == GCD(num, den) IN [num |-> num \div g, den |-> den \div g]
\* x / n where x is a float and n a positive int
FloatDivInt(f, n) == IF f.k = "num" THEN [k |-> "num", q |-> Ratio(f.h, 2 * n)]
                     ELSE [k |-> f.k, q |-> Ratio(0, 1)]
\* x / n where x and n are ints
IntDivInt(x, n) == [k |-> "num", q |-> Ratio(x, n)]
\* the int 0 of the else branch of the averages
ZeroAvg == [k |-> "num", q |-> Ratio(0, 1)]

\* position of the row of a key in a dict kept as a sequence (0: not a key)
KeyIndex(dict, field, key) ==
    IF \E i \in 1..Len(dict) : dict[i][field] = key
    THEN CHOOSE i \in 1..Len(dict) : dict[i][field] = key
    ELSE 0

RegionAccumulate_mut(dict, record) ==
    LET region == record.region
        d1 == IF KeyIndex(dict, "region", region) = 0
              THEN Append(dict, [region |-> region, total_sales |-> 0,
                                 total_revenue |-> FNum(0), total_quantity |-> 0,
                                 product_count |-> 0])
              ELSE dict
        i == KeyIndex(d1, "region", region)
    IN  [d1 EXCEPT ![i].total_sales = @ + 1,
                   ![i].total_revenue = FloatAdd(@, record.total_value),
                   ![i].total_quantity = @ + record.quantity,
                   ![i].product_count = @ + 1]
\* the body of the first loop of aggregate_sales_by_region
RegionAccumulate(dict, record) ==
    LET region == record.region
        d1 == IF KeyIndex(dict, "region", region) = 0
              THEN Append(dict, [region |-> region, total_sales |-> 0,
                                 total_revenue |-> FNum(0), total_quantity |-> 0,
                                 product_count |-> 0])
              ELSE dict
        i == KeyIndex(d1, "region", region)
    IN  [d1 EXCEPT ![i].total_sales = @ + 1,
                   ![i].total_revenue = FloatAdd(@, record.sales_amount),
                   ![i].total_quantity = @ + record.quantity,
                   ![i].product_count = @ + 1]

\* the averages of one row
WithAverages(row) ==
    DictSet(row, [avg_sale_amount |-> IF row.total_sales > 0
                                      THEN FloatDivInt(row.total_revenue, row.total_sales)
                                      ELSE ZeroAvg,
                  avg_quantity |-> IF row.total_sales > 0
                                   THEN IntDivInt(row.total_quantity, row.total_sales)
                                   ELSE ZeroAvg])

ProductAccumulate_mut(dict, record) ==
    LET product == record.product_name
        d1 == IF KeyIndex(dict, "product_name", product) = 0
              THEN Append(dict, [product_name |-> product, total_sales |-> 0,
                                 total_revenue |-> FNum(0), total_quantity |-> 0,
                                 regions |-> {}])
              ELSE dict
        i == KeyIndex(d1, "product_name", product)
    IN  [d1 EXCEPT ![i].total_sales = @ + 1,
                   ![i].total_revenue = FloatAdd(@, record.sales_amount),
                   ![i].total_quantity = record.quantity,
                   ![i].regions = @ \cup {record.region}]
\* the body of the first loop of aggregate_sales_by_product
ProductAccumulate(dict, record) ==
    LET product == record.product_name
        d1 == IF KeyIndex(dict, "product_name", product) = 0
              THEN Append(dict, [product_name |-> product, total_sales |-> 0,
                                 total_revenue |-> FNum(0), total_quantity |-> 0,
                                 regions |-> {}])
              ELSE dict
        i == KeyIndex(d1, "product_name", product)
    IN  [d1 EXCEPT ![i].total_sales = @ + 1,
                   ![i].total_revenue = FloatAdd(@, record.sales_amount),
                   ![i].total_quantity = @ + record.quantity,
                   ![i].regions = @ \cup {record.region}]

\* del d[key]
DictDel(row, key) == [f \in DOMAIN row \ {key} |-> row[f]]

ProductFinish_mut(row) ==
    DictDel(WithAverages(DictSet(row, [region_count |-> row.total_sales])), "regions")
\* the body of the second loop of aggregate_sales_by_product
ProductFinish(row) ==
    DictDel(WithAverages(DictSet(row, [region_count |-> Cardinality(row.regions)])),
            "regions")

\* result.sort(key=lambda x: x['total_revenue'], reverse=True): a stable sort,
\* rows of equal key keep their order
RECURSIVE InsertByRevenue_mut(_, _)
InsertByRevenue_mut(sorted, x) ==
    IF sorted = <<>> THEN <<x>>
    ELSE IF FloatGeq(x.total_revenue, Head(sorted).total_revenue)
         THEN <<x>> \o sorted
         ELSE <<Head(sorted)>> \o InsertByRevenue_mut(Tail(sorted), x)
RECURSIVE InsertByRevenue(_, _)
InsertByRevenue(sorted, x) ==
    IF sorted = <<>> THEN <<x>>
    ELSE IF FloatGeq(Head(sorted).total_revenue, x.total_revenue)
         THEN <<Head(sorted)>> \o InsertByRevenue(Tail(sorted), x)
         ELSE <<x>> \o sorted
RECURSIVE SortByRevenueDesc(_)
SortByRevenueDesc(rows) ==
    IF rows = <<>> THEN <<>>
    ELSE InsertByRevenue(SortByRevenueDesc(SubSeq(rows, 1, Len(rows) - 1)), rows[Len(rows)])

\* the enriched records the Aggregator is given
Chars_Laptop == <<"L","a","p","t","o","p">>
Chars_Mouse == <<"M","o","u","s","e">>
Chars_Tablet == <<"T","a","b","l","e","t">>
Chars_North == <<"N","o","r","t","h">>
Chars_South == <<"S","o","u","t","h">>
\* two sales amounts: 0.5, and the first float whose successor is a whole
\* unit further on, so that adding 0.5 to it rounds
AmountSmall == FNum(1)
AmountBig == FNum(Pow2(FloatPrecision))
AggRecords ==
    {EnrichRecord([BaseClean EXCEPT !.product_name = p, !.region = r,
                                    !.sales_amount = a,
                                    !.quantity = IF a = AmountSmall THEN 1 ELSE 3]).rec :
        p \in {Chars_Laptop, Chars_Mouse, Chars_Tablet},
        r \in {Chars_North, Chars_South},
        a \in {AmountSmall, AmountBig}}

AggregatorInit ==
    /\ a_data \in SeqsUpTo(AggRecords, MaxAggLen)
    /\ a_idx = 1
    /\ region_aggregates = <<>>
    /\ region_result = <<>>
    /\ product_aggregates = <<>>
    /\ product_result = <<>>
    /\ a_pc = "region_loop"

AggregatorIdle ==
    /\ a_data = <<>>
    /\ a_idx = 0
    /\ region_aggregates = <<>>
    /\ region_result = <<>>
    /\ product_aggregates = <<>>
    /\ product_result = <<>>
    /\ a_pc = "idle"

aggregate_sales_by_region_step_mut ==
    /\ a_pc = "region_loop"
    /\ a_idx <= Len(a_data)
    /\ region_aggregates' = RegionAccumulate(region_aggregates, a_data[1])
    /\ a_idx' = a_idx + 1
    /\ UNCHANGED <<a_data, region_result, product_aggregates, product_result, a_pc,
                   c_vars, e_vars, l_vars, x_vars>>
\* aggregate_sales_by_region: for record in data (one iteration)
aggregate_sales_by_region_step ==
    /\ a_pc = "region_loop"
    /\ a_idx <= Len(a_data)
    /\ region_aggregates' = RegionAccumulate(region_aggregates, a_data[a_idx])
    /\ a_idx' = a_idx + 1
    /\ UNCHANGED <<a_data, region_result, product_aggregates, product_result, a_pc,
                   c_vars, e_vars, l_vars, x_vars>>

\* aggregate_sales_by_region: the averages, result = list(values), return;
\* aggregate_sales_by_product is called next on the same data
aggregate_sales_by_region_return ==
    /\ a_pc = "region_loop"
    /\ a_idx > Len(a_data)
    /\ region_aggregates' = [i \in 1..Len(region_aggregates) |->
                               WithAverages(region_aggregates[i])]
    /\ region_result' = region_aggregates'
    /\ a_idx' = 1
    /\ a_pc' = "product_loop"
    /\ UNCHANGED <<a_data, product_aggregates, product_result, c_vars, e_vars, l_vars, x_vars>>

\* aggregate_sales_by_product: for record in data (one iteration)
aggregate_sales_by_product_step ==
    /\ a_pc = "product_loop"
    /\ a_idx <= Len(a_data)
    /\ product_aggregates' = ProductAccumulate(product_aggregates, a_data[a_idx])
    /\ a_idx' = a_idx + 1
    /\ UNCHANGED <<a_data, region_aggregates, region_result, product_result, a_pc,
                   c_vars, e_vars, l_vars, x_vars>>

aggregate_sales_by_product_return_mut ==
    /\ a_pc = "product_loop"
    /\ a_idx > Len(a_data)
    /\ product_aggregates' = [i \in 1..Len(product_aggregates) |->
                                ProductFinish(product_aggregates[i])]
    /\ product_result' = SortByRevenueDesc(product_aggregates')
    /\ a_pc' = "returned"
    /\ a_data' = [i \in 1..Len(a_data) |-> DictDel(a_data[i], "region")]
    /\ UNCHANGED <<a_idx, region_aggregates, region_result, c_vars, e_vars, l_vars, x_vars>>
\* aggregate_sales_by_product: counts and averages, the sort, return
aggregate_sales_by_product_return ==
    /\ a_pc = "product_loop"
    /\ a_idx > Len(a_data)
    /\ product_aggregates' = [i \in 1..Len(product_aggregates) |->
                                ProductFinish(product_aggregates[i])]
    /\ product_result' = SortByRevenueDesc(product_aggregates')
    /\ a_pc' = "returned"
    /\ UNCHANGED <<a_data, a_idx, region_aggregates, region_result, c_vars, e_vars, l_vars, x_vars>>

\* the two aggregations as functions of their input
RECURSIVE RegionFold(_)
RegionFold(data) ==
    IF data = <<>> THEN <<>>
    ELSE RegionAccumulate(RegionFold(SubSeq(data, 1, Len(data) - 1)), data[Len(data)])
RECURSIVE ProductFold(_)
ProductFold(data) ==
    IF data = <<>> THEN <<>>
    ELSE ProductAccumulate(ProductFold(SubSeq(data, 1, Len(data) - 1)), data[Len(data)])
aggregate_sales_by_region(data) ==
    LET d == RegionFold(data) IN [i \in 1..Len(d) |-> WithAverages(d[i])]
aggregate_sales_by_product(data) ==
    LET d == ProductFold(data) IN SortByRevenueDesc([i \in 1..Len(d) |-> ProductFinish(d[i])])

\* ----------------------------------------------------------------- Loader
\* the parameter tuples of the three INSERT statements, as rows
SalesRow(record) ==
    [product_name |-> record.product_name, sales_amount |-> record.sales_amount,
     sale_date |-> record.sale_date, region |-> record.region,
     customer_id |-> record.customer_id, quantity |-> record.quantity,
     total_value |-> record.total_value, sale_month |-> record.sale_month,
     sale_year |-> record.sale_year, sale_quarter |-> record.sale_quarter]
RegionRow(record) ==
    [region |-> record.region, total_sales |-> record.total_sales,
     total_revenue |-> record.total_revenue, total_quantity |-> record.total_quantity,
     product_count |-> record.product_count, avg_sale_amount |-> record.avg_sale_amount,
     avg_quantity |-> record.avg_quantity]
ProductRow(record) ==
    [product_name |-> record.product_name, total_sales |-> record.total_sales,
     total_revenue |-> record.total_revenue, total_quantity |-> record.total_quantity,
     region_count |-> record.region_count, avg_sale_amount |-> record.avg_sale_amount,
     avg_quantity |-> record.avg_quantity]

\* execute_command(INSERT ...) on a table whose column key is UNIQUE: the row
\* is added and committed, or the statement fails and is rolled back
InsertUnique(table, key, row) ==
    IF \E i \in 1..Len(table) : table[i][key] = row[key]
    THEN [exc |-> "IntegrityError", table |-> table]
    ELSE [exc |-> "none", table |-> Append(table, row)]

\* execute_command(INSERT INTO sales_data ... ON CONFLICT DO NOTHING): the
\* row is skipped when it conflicts with a stored row on a unique column; the
\* only one sales_data has is id, its SERIAL primary key, which the store
\* draws afresh for every row
InsertOnConflictDoNothing(table, row) ==
    LET new == DictSet(row, [id |-> Len(table) + 1])
    IN  IF \E i \in 1..Len(table) : table[i].id = new.id
        THEN table
        ELSE Append(table, new)
\* the rows of sales_data after the records have been inserted in an empty table
RECURSIVE SalesTableOf(_)
SalesTableOf(records) ==
    IF records = <<>> THEN <<>>
    ELSE InsertOnConflictDoNothing(SalesTableOf(SubSeq(records, 1, Len(records) - 1)),
                                   SalesRow(records[Len(records)]))

\* the records a Loader call is given, and the rows a table holds before the
\* call: no two rows of an aggregate table have the same key
LoadRecords == {r \in AggRecords : r.product_name # Chars_Tablet}
SalesRecords == {r \in LoadRecords : r.region = Chars_North}
RegionRecords == UNION {{aggregate_sales_by_region(<<r>>)[1]} : r \in LoadRecords}
ProductRecords == UNION {{aggregate_sales_by_product(<<r>>)[1]} : r \in LoadRecords}
KeysDistinct(rows, key) ==
    \A i, j \in 1..Len(rows) : rows[i][key] = rows[j][key] => i = j
StoredRegionTables ==
    {t \in SeqsUpTo({RegionRow(r) : r \in RegionRecords}, MaxPre) : KeysDistinct(t, "region")}
StoredProductTables ==
    {t \in SeqsUpTo({ProductRow(r) : r \in ProductRecords}, MaxPre) :
        KeysDistinct(t, "product_name")}
StoredSalesTables ==
    {<<>>, SalesTableOf(<<CHOOSE r \in SalesRecords : r.sales_amount = AmountBig>>)}

\* the three tables of the store
TablesNow ==
    [sales_data |-> tbl_sales_data, region_aggregates |-> tbl_region_aggregates,
     product_aggregates |-> tbl_product_aggregates]

LoaderInit ==
    /\ tbl_sales_data \in StoredSalesTables
    /\ tbl_region_aggregates \in StoredRegionTables
    /\ tbl_product_aggregates \in StoredProductTables
    /\ tbl0 = [sales_data |-> tbl_sales_data, region_aggregates |-> tbl_region_aggregates,
               product_aggregates |-> tbl_product_aggregates]
    /\ commands = <<>>
    /\ l_op \in {"sales", "region", "product"}
    /\ l_data \in SeqsUpTo(CASE l_op = "sales" -> SalesRecords
                             [] l_op = "region" -> RegionRecords
                             [] l_op = "product" -> ProductRecords,
                           MaxLoadLen)
    /\ confirm_delete \in (IF l_op = "sales" THEN {FALSE} ELSE BOOLEAN)
    /\ l_idx = 1
    /\ loaded_count = 0
    /\ l_pc = (IF l_op = "sales" THEN "insert" ELSE "start")
    /\ l_exc = "none"

LoaderIdle ==
    /\ tbl_sales_data = <<>>
    /\ tbl_region_aggregates = <<>>
    /\ tbl_product_aggregates = <<>>
    /\ tbl0 = [sales_data |-> <<>>, region_aggregates |-> <<>>,
               product_aggregates |-> <<>>]
    /\ commands = <<>>
    /\ l_op = "none"
    /\ l_data = <<>>
    /\ confirm_delete = FALSE
    /\ l_idx = 0
    /\ loaded_count = 0
    /\ l_pc = "idle"
    /\ l_exc = "none"

load_sales_data_insert_mut ==
    /\ l_op = "sales" /\ l_pc = "insert"
    /\ l_idx <= Len(l_data)
    /\ commands' = Append(commands, "INSERT")
    /\ tbl_sales_data' =
         IF \E i \in 1..Len(tbl_sales_data) :
                DictDel(tbl_sales_data[i], "id") = SalesRow(l_data[l_idx])
         THEN tbl_sales_data
         ELSE InsertOnConflictDoNothing(tbl_sales_data, SalesRow(l_data[l_idx]))
    /\ l_idx' = l_idx + 1
    /\ loaded_count' = loaded_count + 1
    /\ UNCHANGED <<tbl_region_aggregates, tbl_product_aggregates, tbl0, l_op, l_data,
                   confirm_delete, l_pc, l_exc, c_vars, e_vars, a_vars, x_vars>>
\* load_sales_data: for record in data (one iteration)
load_sales_data_insert ==
    /\ l_op = "sales" /\ l_pc = "insert"
    /\ l_idx <= Len(l_data)
    /\ commands' = Append(commands, "INSERT")
    /\ tbl_sales_data' = InsertOnConflictDoNothing(tbl_sales_data, SalesRow(l_data[l_idx]))
    /\ l_idx' = l_idx + 1
    /\ loaded_count' = loaded_count + 1
    /\ UNCHANGED <<tbl_region_aggregates, tbl_product_aggregates, tbl0, l_op, l_data,
                   confirm_delete, l_pc, l_exc, c_vars, e_vars, a_vars, x_vars>>

\* load_sales_data: return loaded_count
load_sales_data_return ==
    /\ l_op = "sales" /\ l_pc = "insert"
    /\ l_idx > Len(l_data)
    /\ l_pc' = "returned"
    /\ UNCHANGED <<tbl_vars, tbl0, commands, l_op, l_data, confirm_delete, l_idx,
                   loaded_count, l_exc, c_vars, e_vars, a_vars, x_vars>>

\* load_region_aggregates: if confirm_delete: DELETE FROM region_aggregates
load_region_aggregates_delete ==
    /\ l_op = "region" /\ l_pc = "start"
    /\ confirm_delete
    /\ commands' = Append(commands, "DELETE")
    /\ tbl_region_aggregates' = <<>>
    /\ l_pc' = "insert"
    /\ UNCHANGED <<tbl_sales_data, tbl_product_aggregates, tbl0, l_op, l_data,
                   confirm_delete, l_idx, loaded_count, l_exc, c_vars, e_vars, a_vars, x_vars>>

load_region_aggregates_skip_mut ==
    /\ l_op = "region" /\ l_pc = "start"
    /\ ~confirm_delete
    /\ tbl_region_aggregates' = <<>>
    /\ l_pc' = "insert"
    /\ UNCHANGED <<tbl_sales_data, tbl_product_aggregates, tbl0, commands, l_op, l_data,
                   confirm_delete, l_idx, loaded_count, l_exc, c_vars, e_vars, a_vars, x_vars>>
\* load_region_aggregates: else: the deletion is skipped
load_region_aggregates_skip ==
    /\ l_op = "region" /\ l_pc = "start"
    /\ ~confirm_delete
    /\ l_pc' = "insert"
    /\ UNCHANGED <<tbl_vars, tbl0, commands, l_op, l_data, confirm_delete, l_idx,
                   loaded_count, l_exc, c_vars, e_vars, a_vars, x_vars>>

\* load_region_aggregates: for record in data (one iteration); a failed
\* INSERT is logged and raised again
load_region_aggregates_insert ==
    /\ l_op = "region" /\ l_pc = "insert"
    /\ l_idx <= Len(l_data)
    /\ LET out == InsertUnique(tbl_region_aggregates, "region", RegionRow(l_data[l_idx]))
       IN  /\ commands' = Append(commands, "INSERT")
           /\ tbl_region_aggregates' = out.table
           /\ l_exc' = out.exc
           /\ l_pc' = IF out.exc = "none" THEN "insert" ELSE "raised"
           /\ l_idx' = IF out.exc = "none" THEN l_idx + 1 ELSE l_idx
           /\ loaded_count' = IF out.exc = "none" THEN loaded_count + 1 ELSE loaded_count
    /\ UNCHANGED <<tbl_sales_data, tbl_product_aggregates, tbl0, l_op, l_data,
                   confirm_delete, c_vars, e_vars, a_vars, x_vars>>

\* load_region_aggregates: return loaded_count
load_region_aggregates_return ==
    /\ l_op = "region" /\ l_pc = "insert"
    /\ l_idx > Len(l_data)
    /\ l_pc' = "returned"
    /\ UNCHANGED <<tbl_vars, tbl0, commands, l_op, l_data, confirm_delete, l_idx,
                   loaded_count, l_exc, c_vars, e_vars, a_vars, x_vars>>

\* load_product_aggregates: if confirm_delete: DELETE FROM product_aggregates
load_product_aggregates_delete ==
    /\ l_op = "product" /\ l_pc = "start"
    /\ confirm_delete
    /\ commands' = Append(commands, "DELETE")
    /\ tbl_product_aggregates' = <<>>
    /\ l_pc' = "insert"
    /\ UNCHANGED <<tbl_sales_data, tbl_region_aggregates, tbl0, l_op, l_data,
                   confirm_delete, l_idx, loaded_count, l_exc, c_vars, e_vars, a_vars, x_vars>>

load_product_aggregates_refuse_mut ==
    /\ l_op = "product" /\ l_pc = "start"
    /\ ~confirm_delete
    /\ l_pc' = "insert"
    /\ UNCHANGED <<tbl_vars, tbl0, commands, l_op, l_data, confirm_delete, l_idx,
                   loaded_count, l_exc, c_vars, e_vars, a_vars, x_vars>>
\* load_product_aggregates: else: raise ValueError
load_product_aggregates_refuse ==
    /\ l_op = "product" /\ l_pc = "start"
    /\ ~confirm_delete
    /\ l_pc' = "raised"
    /\ l_exc' = "ValueError"
    /\ UNCHANGED <<tbl_vars, tbl0, commands, l_op, l_data, confirm_delete, l_idx,
                   loaded_count, c_vars, e_vars, a_vars, x_vars>>

\* load_product_aggregates: for record in data (one iteration)
load_product_aggregates_insert ==
    /\ l_op = "product" /\ l_pc = "insert"
    /\ l_idx <= Len(l_data)
    /\ LET out == InsertUnique(tbl_product_aggregates, "product_name",
                               ProductRow(l_data[l_idx]))
       IN  /\ commands' = Append(commands, "INSERT")
           /\ tbl_product_aggregates' = out.table
           /\ l_exc' = out.exc
           /\ l_pc' = IF out.exc = "none" THEN "insert" ELSE "raised"
           /\ l_idx' = IF out.exc = "none" THEN l_idx + 1 ELSE l_idx
           /\ loaded_count' = IF out.exc = "none" THEN loaded_count + 1 ELSE loaded_count
    /\ UNCHANGED <<tbl_sales_data, tbl_region_aggregates, tbl0, l_op, l_data,
                   confirm_delete, c_vars, e_vars, a_vars, x_vars>>

\* load_product_aggregates: return loaded_count
load_product_aggregates_return ==
    /\ l_op = "product" /\ l_pc = "insert"
    /\ l_idx > Len(l_data)
    /\ l_pc' = "returned"
    /\ UNCHANGED <<tbl_vars, tbl0, commands, l_op, l_data, confirm_delete, l_idx,
                   loaded_count, l_exc, c_vars, e_vars, a_vars, x_vars>>

execute_command_fails_mut ==
    /\ \/ l_pc = "start" /\ confirm_delete
       \/ l_pc = "insert" /\ l_idx <= Len(l_data)
    /\ commands' = Append(commands, IF l_pc = "start" THEN "DELETE" ELSE "INSERT")
    /\ l_pc' = "raised"
    /\ l_exc' = "OperationalError"
    /\ tbl_sales_data' = tbl0.sales_data
    /\ tbl_region_aggregates' = tbl0.region_aggregates
    /\ tbl_product_aggregates' = tbl0.product_aggregates
    /\ UNCHANGED <<tbl0, l_op, l_data, confirm_delete, l_idx, loaded_count,
                   c_vars, e_vars, a_vars, x_vars>>
\* execute_command: the connection or the statement fails in the storage
\* layer; the statement is rolled back and the error raised to the Loader
\* call, which raises it to its caller
execute_command_fails ==
    /\ \/ l_pc = "start" /\ confirm_delete
       \/ l_pc = "insert" /\ l_idx <= Len(l_data)
    /\ commands' = Append(commands, IF l_pc = "start" THEN "DELETE" ELSE "INSERT")
    /\ l_pc' = "raised"
    /\ l_exc' = "OperationalError"
    /\ UNCHANGED <<tbl_vars, tbl0, l_op, l_data, confirm_delete, l_idx, loaded_count,
                   c_vars, e_vars, a_vars, x_vars>>

\* --------------------------------------------------------------- pipeline
\* stand-in for the 100 records extract_sample_sales_data generates
SampleSize == 2
\* default_args['retries'] of the DAG
retries == 1

\* the raw records extract_sample_sales_data draws from: a product, a price
\* above 0, a region, a quantity from 1 up, a date written by strftime
SampleRecord(product, region, amount, quantity) ==
    [BaseRaw EXCEPT !.product_name = PyStr(product), !.region = PyStr(region),
                    !.sales_amount = PyFloat(amount.h), !.quantity = PyInt(quantity)]
ExtractRecords ==
    {SampleRecord(Chars_Laptop, Chars_North, AmountBig, 3),
     SampleRecord(Chars_Mouse, Chars_North, AmountSmall, 1),
     SampleRecord(Chars_Mouse, Chars_South, AmountSmall, 1),
     SampleRecord(Chars_Laptop, Chars_South, AmountSmall, 1)}
ExtractBatches == [1..SampleSize -> ExtractRecords]

\* clean_sales_data followed by add_calculated_fields, as a function of the
\* raw records (of records the two stages raise nothing for)
Transform(raw) ==
    LET kept == SelectSeq(raw, LAMBDA r : CleanRecord(r).kind = "keep")
    IN  [i \in 1..Len(kept) |-> EnrichRecord(CleanRecord(kept[i]).rec).rec]

\* the rows of the aggregate tables after the rows have been inserted in
\* empty tables
RegionTableOf(rows) == [i \in 1..Len(rows) |-> RegionRow(rows[i])]
ProductTableOf(rows) == [i \in 1..Len(rows) |-> ProductRow(rows[i])]

\* the store a run starts with: empty tables, or the tables an earlier run
\* that loaded a batch completely has left
EmptyStore == [sales_data |-> <<>>, region_aggregates |-> <<>>, product_aggregates |-> <<>>]
StoreAfterRun(raw) ==
    [sales_data |-> SalesTableOf(Transform(raw)),
     region_aggregates |-> RegionTableOf(aggregate_sales_by_region(Transform(raw))),
     product_aggregates |-> ProductTableOf(aggregate_sales_by_product(Transform(raw)))]
EarlierBatches ==
    [1..SampleSize -> {SampleRecord(Chars_Laptop, Chars_North, AmountBig, 3),
                       SampleRecord(Chars_Mouse, Chars_South, AmountSmall, 1)}]
PriorStores == {EmptyStore} \cup {StoreAfterRun(raw) : raw \in EarlierBatches}

NoSummary == [sales_records |-> -1, regions |-> -1, products |-> -1,
              total_revenue |-> FNaN]

\* SELECT COALESCE(SUM(sales_amount), 0) FROM sales_data: the exact sum of a
\* DECIMAL column, in halves; NaN if a stored amount is NaN
RECURSIVE SumSalesAmount(_)
SumSalesAmount(rows) ==
    IF rows = <<>> THEN [k |-> "num", h |-> 0]
    ELSE LET rest == SumSalesAmount(Tail(rows))
             x == Head(rows).sales_amount
         IN  IF rest.k = "nan" \/ x.k # "num" THEN FNaN
             ELSE [k |-> "num", h |-> rest.h + x.h]

DataSummary_mut(sales, regions, products) ==
    LET total_revenue == SumSalesAmount(sales)
    IN  [sales_records |-> Len(sales),
         regions |-> Len(products),
         products |-> Len(products),
         total_revenue |-> IF total_revenue.k = "num"
                           THEN IF total_revenue.h # 0
                                THEN FNum(RoundFloat(total_revenue.h))
                                ELSE FNum(0)
                           ELSE FNaN]
\* get_data_summary: the three counts, and float(total_revenue) if
\* total_revenue else 0.0
DataSummary(sales, regions, products) ==
    LET total_revenue == SumSalesAmount(sales)
    IN  [sales_records |-> Len(sales),
         regions |-> Len(regions),
         products |-> Len(products),
         total_revenue |-> IF total_revenue.k = "num"
                           THEN IF total_revenue.h # 0
                                THEN FNum(RoundFloat(total_revenue.h))
                                ELSE FNum(0)
                           ELSE FNaN]

ValidateSummary_mut(sum) ==
    IF sum.sales_records = 0 THEN "No sales records found in database"
    ELSE IF sum.regions = 0 THEN "No regional data found"
    ELSE IF FloatLeqZero(sum.total_revenue) THEN "Total revenue should be positive"
    ELSE IF sum.products = 0 THEN "No product data found"
    ELSE "none"
\* validate_data: the checks in the order of the code; the message of the
\* ValueError raised, "none" if the summary passes
ValidateSummary(sum) ==
    IF sum.sales_records = 0 THEN "No sales records found in database"
    ELSE IF FloatLeqZero(sum.total_revenue) THEN "Total revenue should be positive"
    ELSE IF sum.regions = 0 THEN "No regional data found"
    ELSE IF sum.products = 0 THEN "No product data found"
    ELSE "none"

PipelineIdle ==
    /\ p_entry = "none"
    /\ p_pc = "idle"
    /\ p_try = 0
    /\ p_exc = "none"
    /\ p_log = <<>>
    /\ p_store0 = EmptyStore
    /\ summary = NoSummary

\* the start of a run: nothing has run, the store is as an earlier run left it
PipelineInit ==
    /\ p_entry \in {"dag", "script"}
    /\ p_pc = "extract"
    /\ p_try = 1
    /\ p_exc = "none"
    /\ p_log = <<>>
    /\ summary = NoSummary
    /\ \E store \in PriorStores :
         /\ tbl_sales_data = store.sales_data
         /\ tbl_region_aggregates = store.region_aggregates
         /\ tbl_product_aggregates = store.product_aggregates
         /\ tbl0 = store
         /\ p_store0 = store
    /\ commands = <<>>
    /\ l_op = "none"
    /\ l_data = <<>>
    /\ confirm_delete = FALSE
    /\ l_idx = 0
    /\ loaded_count = 0
    /\ l_pc = "idle"
    /\ l_exc = "none"

\* the stores validate_data may find: tables filled by runs of the pipeline
\* or by calls of the Loader on records of any kind (a zero, a negative or a
\* NaN amount)
ValidateSalesTables ==
    LET big == CHOOSE r \in SalesRecords : r.sales_amount = AmountBig
        small == CHOOSE r \in SalesRecords : r.sales_amount = AmountSmall
        with(a) == [big EXCEPT !.sales_amount = a]
    IN  {SalesTableOf(t) : t \in {<<>>, <<big>>, <<big, small>>, <<with(FNum(0))>>,
                                  <<big, with(FNum(-2 * AmountBig.h))>>,
                                  <<big, with(FNum(-AmountBig.h))>>,
                                  <<big, with(FNaN)>>}}
ValidateStores ==
    {[sales_data |-> t, region_aggregates |-> r, product_aggregates |-> q] :
        t \in ValidateSalesTables,
        r \in {RegionTableOf(aggregate_sales_by_region(Transform(SubSeq(raw, 1, n)))) :
                 raw \in EarlierBatches, n \in 0..1},
        q \in {ProductTableOf(aggregate_sales_by_product(Transform(raw))) :
                 raw \in EarlierBatches} \cup {<<>>}}

\* the validate_data task about to run: the tasks before it are done, the
\* summary load_data returned was taken from the store as it was then
ValidateInit ==
    /\ p_entry = "dag"
    /\ p_pc = "validate"
    /\ p_try = 1
    /\ p_exc = "none"
    /\ p_log = <<"Extractor", "Cleaner", "Enricher", "Aggregator", "Loader">>
    /\ \E store \in PriorStores \ {EmptyStore} :
         summary = DataSummary(store.sales_data, store.region_aggregates,
                               store.product_aggregates)
    /\ \E store \in ValidateStores :
         /\ tbl_sales_data = store.sales_data
         /\ tbl_region_aggregates = store.region_aggregates
         /\ tbl_product_aggregates = store.product_aggregates
         /\ tbl0 = store
         /\ p_store0 = store
    /\ commands = <<>>
    /\ l_op = "none"
    /\ l_data = <<>>
    /\ confirm_delete = FALSE
    /\ l_idx = 0
    /\ loaded_count = 0
    /\ l_pc = "idle"
    /\ l_exc = "none"

\* a Loader call of the load phase is in progress
InLoaderCall == p_pc \in {"load_sales", "load_region", "load_product"}
\* the exception that is leaving the phase in progress, "none" if none
Pending ==
    IF p_pc \in {"idle", "success", "failed"} THEN "none"
    ELSE IF p_exc # "none" THEN p_exc
    ELSE IF InLoaderCall /\ l_pc = "raised" THEN l_exc
    ELSE IF p_pc = "clean" /\ c_pc = "raised" THEN "Cleaner"
    ELSE IF p_pc = "enrich" /\ e_pc = "raised" THEN "Enricher"
    ELSE "none"

\* extract_data / run_etl_pipeline step 1: the sample records are generated
\* and handed to clean_sales_data
extract_sample_sales_data ==
    /\ p_pc = "extract"
    /\ \E raw \in ExtractBatches : c_data' = raw
    /\ c_idx' = 1
    /\ cleaned_data' = <<>>
    /\ invalid_records' = 0
    /\ c_pc' = "loop"
    /\ p_pc' = "clean"
    /\ p_log' = Append(p_log, "Extractor")
    /\ UNCHANGED <<y_vars, p_entry, p_store0, p_try, p_exc, summary, e_vars, a_vars, l_vars>>

\* transform_data / step 2: cleaned_data is handed to add_calculated_fields
call_add_calculated_fields ==
    /\ p_pc = "clean" /\ c_pc = "returned"
    /\ e_data' = cleaned_data
    /\ e_data0' = cleaned_data
    /\ e_idx' = 1
    /\ e_pc' = "loop"
    /\ p_pc' = "enrich"
    /\ p_log' = Append(p_log, "Cleaner")
    /\ UNCHANGED <<y_vars, p_entry, p_store0, p_try, p_exc, summary, c_vars, a_vars, l_vars>>

\* enhanced_data is handed to aggregate_sales_by_region and _by_product
call_aggregate_sales ==
    /\ p_pc = "enrich" /\ e_pc = "returned"
    /\ a_data' = e_data
    /\ a_idx' = 1
    /\ region_aggregates' = <<>>
    /\ region_result' = <<>>
    /\ product_aggregates' = <<>>
    /\ product_result' = <<>>
    /\ a_pc' = "region_loop"
    /\ p_pc' = "aggregate"
    /\ p_log' = Append(p_log, "Enricher")
    /\ UNCHANGED <<y_vars, p_entry, p_store0, p_try, p_exc, summary, c_vars, e_vars, l_vars>>

\* transform_data returns; the load phase is next
transform_data_return ==
    /\ p_pc = "aggregate" /\ a_pc = "returned"
    /\ p_pc' = "load"
    /\ p_try' = 1
    /\ p_log' = Append(p_log, "Aggregator")
    /\ UNCHANGED <<y_vars, p_entry, p_store0, p_exc, summary, c_vars, e_vars, a_vars, l_vars>>

\* load_data / step 3: create_tables (CREATE TABLE IF NOT EXISTS leaves the
\* rows alone), then load_sales_data(enhanced_data) is called
create_tables ==
    /\ p_pc = "load" /\ p_exc = "none"
    /\ l_op' = "sales"
    /\ l_data' = a_data
    /\ confirm_delete' = FALSE
    /\ l_idx' = 1
    /\ loaded_count' = 0
    /\ commands' = <<>>
    /\ l_pc' = "insert"
    /\ l_exc' = "none"
    /\ tbl0' = TablesNow
    /\ p_store0' = TablesNow
    /\ p_pc' = "load_sales"
    /\ UNCHANGED <<tbl_vars, y_vars, p_entry, p_try, p_exc, p_log, summary, c_vars, e_vars, a_vars>>

\* load_region_aggregates(region_aggregates): confirm_delete is left to its
\* default, False
call_load_region_aggregates ==
    /\ p_pc = "load_sales" /\ l_pc = "returned"
    /\ l_op' = "region"
    /\ l_data' = region_result
    /\ confirm_delete' = FALSE
    /\ l_idx' = 1
    /\ loaded_count' = 0
    /\ commands' = <<>>
    /\ l_pc' = "start"
    /\ tbl0' = TablesNow
    /\ p_pc' = "load_region"
    /\ UNCHANGED <<tbl_vars, l_exc, y_vars, p_entry, p_store0, p_try, p_exc, p_log, summary,
                   c_vars, e_vars, a_vars>>

\* load_product_aggregates(product_aggregates): confirm_delete is left to
\* its default, True
call_load_product_aggregates ==
    /\ p_pc = "load_region" /\ l_pc = "returned"
    /\ l_op' = "product"
    /\ l_data' = product_result
    /\ confirm_delete' = TRUE
    /\ l_idx' = 1
    /\ loaded_count' = 0
    /\ commands' = <<>>
    /\ l_pc' = "start"
    /\ tbl0' = TablesNow
    /\ p_pc' = "load_product"
    /\ UNCHANGED <<tbl_vars, l_exc, y_vars, p_entry, p_store0, p_try, p_exc, p_log, summary,
                   c_vars, e_vars, a_vars>>

\* get_data_summary at the end of the load phase; run_etl_pipeline then logs
\* "ETL Pipeline completed successfully!" and returns the summary, the DAG
\* goes on to validate_data
get_data_summary ==
    /\ p_pc = "load_product" /\ l_pc = "returned" /\ p_exc = "none"
    /\ summary' = DataSummary(tbl_sales_data, tbl_region_aggregates, tbl_product_aggregates)
    /\ p_log' = Append(p_log, "Loader")
    /\ p_pc' = IF p_entry = "dag" THEN "validate" ELSE "success"
    /\ p_try' = 1
    /\ UNCHANGED <<y_vars, p_entry, p_store0, p_exc, c_vars, e_vars, a_vars, l_vars>>

\* validate_data: a summary of its own, then the checks
validate_data ==
    /\ p_pc = "validate" /\ p_exc = "none"
    /\ LET sum == DataSummary(tbl_sales_data, tbl_region_aggregates,
                              tbl_product_aggregates)
       IN  /\ summary' = sum
           /\ p_exc' = ValidateSummary(sum)
           /\ p_pc' = IF ValidateSummary(sum) = "none" THEN "health_check" ELSE "validate"
           /\ p_log' = IF ValidateSummary(sum) = "none" THEN Append(p_log, "Validator")
                       ELSE p_log
    /\ UNCHANGED <<y_vars, p_entry, p_store0, p_try, c_vars, e_vars, a_vars, l_vars>>

\* health_check, the last task of the DAG; the run is then a success
health_check ==
    /\ p_pc = "health_check"
    /\ p_pc' = "success"
    /\ UNCHANGED <<y_vars, p_entry, p_store0, p_try, p_exc, p_log, summary, c_vars, e_vars, a_vars,
                   l_vars>>

\* a command of create_tables or a query of get_data_summary fails in the
\* storage layer: logged and raised again
execute_fails ==
    /\ p_exc = "none"
    /\ \/ p_pc = "load"
       \/ p_pc = "load_product" /\ l_pc = "returned"
       \/ p_pc = "validate"
    /\ p_exc' = "OperationalError"
    /\ UNCHANGED <<y_vars, p_entry, p_store0, p_pc, p_try, p_log, summary, c_vars, e_vars, a_vars,
                   l_vars>>

\* the DAG runs a failed task again, retries times, with the data the tasks
\* before it returned
retry_task ==
    /\ p_entry = "dag"
    /\ Pending # "none"
    /\ p_try <= retries
    /\ p_try' = p_try + 1
    /\ p_exc' = "none"
    /\ summary' = NoSummary
    /\ p_pc' = IF p_pc = "validate" THEN "validate" ELSE "load"
    /\ UNCHANGED <<y_vars, p_entry, p_store0, p_log, c_vars, e_vars, a_vars, l_vars>>

\* the exception leaves the run: run_etl_pipeline logs it and raises it
\* again, the DAG run fails once the task has no try left
run_fails ==
    /\ Pending # "none"
    /\ p_entry = "script" \/ p_try > retries
    /\ p_pc' = "failed"
    /\ p_exc' = Pending
    /\ UNCHANGED <<y_vars, p_entry, p_store0, p_try, p_log, summary, c_vars, e_vars, a_vars,
                   l_vars>>

\* -------------------------------------------------------- concurrent runs
\* two pipeline runs against the same store, each at its call of
\* load_region_aggregates(data, confirm_delete=True) or
\* load_product_aggregates(data); every execute_command is a transaction of
\* its own, so the statements of the two calls interleave freely
Runs == {1, 2}
KeyOf(op) == IF op = "region" THEN "region" ELSE "product_name"
RowOf(op, record) == IF op = "region" THEN RegionRow(record) ELSE ProductRow(record)
RowsOf(op, data) == [i \in 1..Len(data) |-> RowOf(op, data[i])]
\* the rows a run's aggregation hands to the call: no two of the same key
RunData(op) ==
    {d \in SeqsUpTo(IF op = "region" THEN RegionRecords ELSE ProductRecords, MaxLoadLen) :
        KeysDistinct(d, KeyOf(op))}
DeleteFrom_mut(table) == table
\* execute_command("DELETE FROM <table>;")
DeleteFrom(table) == <<>>

ConcurrentInit ==
    /\ r_op \in {"region", "product"}
    /\ r_table \in {<<>>} \cup {RowsOf(r_op, d) : d \in RunData(r_op)}
    /\ r_data \in [Runs -> RunData(r_op)]
    /\ r_pc = [r \in Runs |-> "start"]
    /\ r_idx = [r \in Runs |-> 1]
    /\ r_events = <<>>

ConcurrentIdle ==
    /\ r_op = "none"
    /\ r_table = <<>>
    /\ r_data = [r \in Runs |-> <<>>]
    /\ r_pc = [r \in Runs |-> "idle"]
    /\ r_idx = [r \in Runs |-> 0]
    /\ r_events = <<>>

\* load_*_aggregates of run r: if confirm_delete: DELETE FROM <table>
run_delete(r) ==
    /\ r_pc[r] = "start"
    /\ r_table' = DeleteFrom(r_table)
    /\ r_pc' = [r_pc EXCEPT ![r] = "insert"]
    /\ r_events' = Append(r_events, [run |-> r, what |-> "begin"])
    /\ UNCHANGED <<r_op, r_data, r_idx, c_vars, e_vars, a_vars, l_vars, p_vars, d_vars>>

\* load_*_aggregates of run r: for record in data (one iteration); a row of
\* the same key left by the other run makes the INSERT fail
run_insert(r) ==
    /\ r_pc[r] = "insert"
    /\ r_idx[r] <= Len(r_data[r])
    /\ LET out == InsertUnique(r_table, KeyOf(r_op), RowOf(r_op, r_data[r][r_idx[r]]))
       IN  /\ r_table' = out.table
           /\ r_pc' = [r_pc EXCEPT ![r] = IF out.exc = "none" THEN "insert" ELSE "raised"]
           /\ r_idx' = [r_idx EXCEPT ![r] = IF out.exc = "none" THEN @ + 1 ELSE @]
           /\ r_events' = IF out.exc = "none" THEN r_events
                          ELSE Append(r_events, [run |-> r, what |-> "end"])
    /\ UNCHANGED <<r_op, r_data, c_vars, e_vars, a_vars, l_vars, p_vars, d_vars>>

\* load_*_aggregates of run r: return loaded_count
run_return(r) ==
    /\ r_pc[r] = "insert"
    /\ r_idx[r] > Len(r_data[r])
    /\ r_pc' = [r_pc EXCEPT ![r] = "returned"]
    /\ r_events' = Append(r_events, [run |-> r, what |-> "end"])
    /\ UNCHANGED <<r_op, r_table, r_data, r_idx, c_vars, e_vars, a_vars, l_vars, p_vars, d_vars>>

\* execute_command of run r fails in the storage layer: the statement is
\* rolled back and the call raises
run_command_fails(r) ==
    /\ \/ r_pc[r] = "start"
       \/ r_pc[r] = "insert" /\ r_idx[r] <= Len(r_data[r])
    /\ r_pc' = [r_pc EXCEPT ![r] = "raised"]
    /\ r_events' = IF r_pc[r] = "start"
                   THEN r_events \o <<[run |-> r, what |-> "begin"],
                                      [run |-> r, what |-> "end"]>>
                   ELSE Append(r_events, [run |-> r, what |-> "end"])
    /\ UNCHANGED <<r_op, r_table, r_data, r_idx, c_vars, e_vars, a_vars, l_vars, p_vars, d_vars>>

\* ------------------------------------------------------ connection scope
\* most calls of execute_query / execute_command in one behaviour
MaxCalls == 3
\* what psycopg2.connect returns: an open connection with no transaction
NewConnection(call) ==
    [open |-> TRUE, cursor |-> "none", txn |-> "none", statements |-> 0, call |-> call]
\* connection.rollback(): ends the transaction in progress, if any
Rollback(conn) ==
    [conn EXCEPT !.txn = IF @ \in {"active", "failed", "aborted"} THEN "rolledback" ELSE @]
Close_mut(conn) == conn
\* connection.close(): a transaction still in progress is discarded by the store
Close(conn) ==
    [conn EXCEPT !.open = FALSE,
                 !.txn = IF @ \in {"active", "failed", "aborted"} THEN "discarded" ELSE @]

ConnectionInit ==
    /\ db_kind = "none"
    /\ db_pc = "idle"
    /\ db_exc = "none"
    /\ db_conn = 0
    /\ db_conns = <<>>
    /\ db_store = {}
    /\ db_calls = 0
    /\ db_outcome = "none"

ConnectionIdle == ConnectionInit
\* no concurrent runs and no storage call in progress
StorageIdle == ConcurrentIdle /\ ConnectionIdle

\* execute_query(query, params) / execute_command(command, params) is called
execute_begin ==
    /\ db_pc \in {"idle", "done"}
    /\ db_calls < MaxCalls
    /\ \E kind \in {"query", "command"} : db_kind' = kind
    /\ db_calls' = db_calls + 1
    /\ db_pc' = "connect"
    /\ db_exc' = "none"
    /\ db_conn' = 0
    /\ db_outcome' = "none"
    /\ UNCHANGED <<db_conns, db_store, c_vars, e_vars, a_vars, l_vars, p_vars, r_vars>>

\* get_connection: connection = psycopg2.connect(...); yield connection
get_connection_connect ==
    /\ db_pc = "connect"
    /\ db_conns' = Append(db_conns, NewConnection(db_calls))
    /\ db_conn' = Len(db_conns) + 1
    /\ db_pc' = "cursor"
    /\ UNCHANGED <<db_kind, db_exc, db_store, db_calls, db_outcome,
                   c_vars, e_vars, a_vars, l_vars, p_vars, r_vars>>

\* get_connection: psycopg2.connect raises; connection is None, so the except
\* clause and the finally clause do nothing and the call raises
get_connection_connect_fails ==
    /\ db_pc = "connect"
    /\ db_exc' = "psycopg2.Error"
    /\ db_pc' = "done"
    /\ db_outcome' = "raised"
    /\ UNCHANGED <<db_kind, db_conn, db_conns, db_store, db_calls,
                   c_vars, e_vars, a_vars, l_vars, p_vars, r_vars>>

\* get_cursor: cursor = connection.cursor(...); yield cursor
get_cursor_cursor ==
    /\ db_pc = "cursor"
    /\ db_conns' = [db_conns EXCEPT ![db_conn].cursor = "open"]
    /\ db_pc' = "execute"
    /\ UNCHANGED <<db_kind, db_exc, db_conn, db_store, db_calls, db_outcome,
                   c_vars, e_vars, a_vars, l_vars, p_vars, r_vars>>

\* get_cursor: connection.cursor raises
get_cursor_cursor_fails ==
    /\ db_pc = "cursor"
    /\ db_exc' = "psycopg2.Error"
    /\ db_pc' = "cursor_except"
    /\ UNCHANGED <<db_kind, db_conn, db_conns, db_store, db_calls, db_outcome,
                   c_vars, e_vars, a_vars, l_vars, p_vars, r_vars>>

\* execute_query / execute_command: cursor.execute (and fetchall) succeed and
\* the function returns from inside the with block
cursor_execute ==
    /\ db_pc = "execute"
    /\ db_conns' = [db_conns EXCEPT ![db_conn].txn = "active",
                                    ![db_conn].statements = @ + 1]
    /\ db_pc' = "commit"
    /\ UNCHANGED <<db_kind, db_exc, db_conn, db_store, db_calls, db_outcome,
                   c_vars, e_vars, a_vars, l_vars, p_vars, r_vars>>

\* execute_query / execute_command: cursor.execute raises a psycopg2.Error, or
\* the with block raises another exception (a bad parameter, a bad row)
cursor_execute_fails ==
    /\ db_pc = "execute"
    /\ \E e \in {"psycopg2.Error", "other"} :
          /\ db_exc' = e
          /\ db_pc' = IF e = "psycopg2.Error" THEN "cursor_except" ELSE "cursor_finally"
    /\ \E began \in BOOLEAN :
          db_conns' = [db_conns EXCEPT ![db_conn].txn = IF began THEN "failed" ELSE @,
                                      ![db_conn].statements = @ + 1]
    /\ UNCHANGED <<db_kind, db_conn, db_store, db_calls, db_outcome,
                   c_vars, e_vars, a_vars, l_vars, p_vars, r_vars>>

\* get_cursor: connection.commit()
get_cursor_commit ==
    /\ db_pc = "commit"
    /\ db_conns' = [db_conns EXCEPT ![db_conn].txn = "committed"]
    /\ db_store' = db_store \cup {db_calls}
    /\ db_pc' = "cursor_finally"
    /\ UNCHANGED <<db_kind, db_exc, db_conn, db_calls, db_outcome,
                   c_vars, e_vars, a_vars, l_vars, p_vars, r_vars>>

\* get_cursor: connection.commit() raises; the store has aborted the
\* transaction instead of committing it
get_cursor_commit_fails ==
    /\ db_pc = "commit"
    /\ db_conns' = [db_conns EXCEPT ![db_conn].txn = "aborted"]
    /\ db_exc' = "psycopg2.Error"
    /\ db_pc' = "cursor_except"
    /\ UNCHANGED <<db_kind, db_conn, db_store, db_calls, db_outcome,
                   c_vars, e_vars, a_vars, l_vars, p_vars, r_vars>>

\* get_cursor: except psycopg2.Error: connection.rollback(); raise.  The
\* rollback can raise itself when the connection is lost
get_cursor_except ==
    /\ db_pc = "cursor_except"
    /\ \E lost \in BOOLEAN :
          db_conns' = IF lost THEN db_conns
                      ELSE [db_conns EXCEPT ![db_conn] = Rollback(@)]
    /\ db_pc' = "cursor_finally"
    /\ UNCHANGED <<db_kind, db_exc, db_conn, db_store, db_calls, db_outcome,
                   c_vars, e_vars, a_vars, l_vars, p_vars, r_vars>>

\* get_cursor: finally: if cursor: cursor.close()
get_cursor_finally ==
    /\ db_pc = "cursor_finally"
    /\ db_conns' = [db_conns EXCEPT ![db_conn].cursor = IF @ = "open" THEN "closed" ELSE @]
    /\ db_pc' = IF db_exc = "psycopg2.Error" THEN "connection_except"
                ELSE "connection_finally"
    /\ UNCHANGED <<db_kind, db_exc, db_conn, db_store, db_calls, db_outcome,
                   c_vars, e_vars, a_vars, l_vars, p_vars, r_vars>>

\* get_connection: except psycopg2.Error: if connection: connection.rollback();
\* raise
get_connection_except ==
    /\ db_pc = "connection_except"
    /\ \E lost \in BOOLEAN :
          db_conns' = IF lost THEN db_conns
                      ELSE [db_conns EXCEPT ![db_conn] = Rollback(@)]
    /\ db_pc' = "connection_finally"
    /\ UNCHANGED <<db_kind, db_exc, db_conn, db_store, db_calls, db_outcome,
                   c_vars, e_vars, a_vars, l_vars, p_vars, r_vars>>

\* get_connection: finally: if connection: connection.close(); then the call
\* returns its result, or logs and re-raises the exception
get_connection_finally ==
    /\ db_pc = "connection_finally"
    /\ db_conns' = [db_conns EXCEPT ![db_conn] = Close(@)]
    /\ db_pc' = "done"
    /\ db_outcome' = IF db_exc = "none" THEN "returned" ELSE "raised"
    /\ UNCHANGED <<db_kind, db_exc, db_conn, db_store, db_calls,
                   c_vars, e_vars, a_vars, l_vars, p_vars, r_vars>>

\* --------------------------------------------------------- specifications
NextClean == clean_sales_data_step \/ clean_sales_data_return
InitClean ==
    CleanerInit /\ EnricherIdle /\ AggregatorIdle /\ LoaderIdle /\ PipelineIdle /\ StorageIdle
SpecClean == InitClean /\ [][NextClean]_vars

NextEnrich == add_calculated_fields_step \/ add_calculated_fields_return
InitEnrich ==
    CleanerIdle /\ EnricherInit /\ AggregatorIdle /\ LoaderIdle /\ PipelineIdle /\ StorageIdle
SpecEnrich == InitEnrich /\ [][NextEnrich]_vars

NextAggregate ==
    \/ aggregate_sales_by_region_step
    \/ aggregate_sales_by_region_return
    \/ aggregate_sales_by_product_step
    \/ aggregate_sales_by_product_return
InitAggregate ==
    CleanerIdle /\ EnricherIdle /\ AggregatorInit /\ LoaderIdle /\ PipelineIdle /\ StorageIdle
SpecAggregate == InitAggregate /\ [][NextAggregate]_vars

NextLoad ==
    \/ load_sales_data_insert
    \/ load_sales_data_return
    \/ load_region_aggregates_delete
    \/ load_region_aggregates_skip
    \/ load_region_aggregates_insert
    \/ load_region_aggregates_return
    \/ load_product_aggregates_delete
    \/ load_product_aggregates_refuse
    \/ load_product_aggregates_insert
    \/ load_product_aggregates_return
    \/ execute_command_fails
InitLoad ==
    CleanerIdle /\ EnricherIdle /\ AggregatorIdle /\ LoaderInit /\ PipelineIdle /\ StorageIdle
SpecLoad == InitLoad /\ [][NextLoad]_vars

\* a run of the pipeline, by the DAG or by run_etl_pipeline
NextPipeline ==
    \/ extract_sample_sales_data
    \/ clean_sales_data_step
    \/ clean_sales_data_return
    \/ call_add_calculated_fields
    \/ add_calculated_fields_step
    \/ add_calculated_fields_return
    \/ call_aggregate_sales
    \/ aggregate_sales_by_region_step
    \/ aggregate_sales_by_region_return
    \/ aggregate_sales_by_product_step
    \/ aggregate_sales_by_product_return
    \/ transform_data_return
    \/ create_tables
    \/ load_sales_data_insert
    \/ load_sales_data_return
    \/ call_load_region_aggregates
    \/ load_region_aggregates_skip
    \/ load_region_aggregates_insert
    \/ load_region_aggregates_return
    \/ call_load_product_aggregates
    \/ load_product_aggregates_delete
    \/ load_product_aggregates_insert
    \/ load_product_aggregates_return
    \/ execute_command_fails
    \/ get_data_summary
    \/ validate_data
    \/ health_check
    \/ execute_fails
    \/ retry_task
    \/ run_fails
InitPipeline ==
    CleanerIdle /\ EnricherIdle /\ AggregatorIdle /\ PipelineInit /\ StorageIdle
SpecPipeline == InitPipeline /\ [][NextPipeline]_vars

\* the validate_data task of the DAG, on any store
NextValidate ==
    \/ validate_data
    \/ health_check
    \/ execute_fails
    \/ retry_task
    \/ run_fails
InitValidate ==
    CleanerIdle /\ EnricherIdle /\ AggregatorIdle /\ ValidateInit /\ StorageIdle
SpecValidate == InitValidate /\ [][NextValidate]_vars

\* two runs replacing the rows of one aggregate table at the same time
NextConcurrent ==
    \/ \E r \in Runs : run_delete(r)
    \/ \E r \in Runs : run_insert(r)
    \/ \E r \in Runs : run_return(r)
    \/ \E r \in Runs : run_command_fails(r)
InitConcurrent ==
    /\ CleanerIdle /\ EnricherIdle /\ AggregatorIdle /\ LoaderIdle /\ PipelineIdle
    /\ ConcurrentInit /\ ConnectionIdle
SpecConcurrent == InitConcurrent /\ [][NextConcurrent]_vars

\* a sequence of execute_query / execute_command calls
NextConnection ==
    \/ execute_begin
    \/ get_connection_connect
    \/ get_connection_connect_fails
    \/ get_cursor_cursor
    \/ get_cursor_cursor_fails
    \/ cursor_execute
    \/ cursor_execute_fails
    \/ get_cursor_commit
    \/ get_cursor_commit_fails
    \/ get_cursor_except
    \/ get_cursor_finally
    \/ get_connection_except
    \/ get_connection_finally
InitConnection ==
    /\ CleanerIdle /\ EnricherIdle /\ AggregatorIdle /\ LoaderIdle /\ PipelineIdle
    /\ ConcurrentIdle /\ ConnectionInit
SpecConnection == InitConnection /\ [][NextConnection]_vars

\* ----------------------------------------------------------------- claims
\* the value of a raw quantity as a number of halves (absent: the default 1)
SourceQtyHalves(v) ==
    CASE v.tag = "int" -> 2 * v.n
      [] v.tag = "float" -> v.n
      [] v.tag = "absent" -> 2
      [] OTHER -> 2 * PyIntOf(v).val

\* a raw record is rejected, in the words of the Cleaner's contract: a
\* mandatory field is absent, sales_amount does not coerce to a number
\* greater than 0, or sale_date does not parse
Rejected(record) ==
    \/ Absent \in {record.product_name, record.sales_amount, record.sale_date}
    \/ PyFloatOf(record.sales_amount).exc # "none"
    \/ ~FloatGtZero(PyFloatOf(record.sales_amount).val)
    \/ Strptime(record.sale_date).exc # "none"
NotRejected(record) == ~Rejected(record)

\* C1: after clean_sales_data has handled a prefix of its input, the records
\* kept are exactly the not-rejected records of that prefix, in input order
\* (so the returned list is the not-rejected subsequence of the whole input,
\* and the function does return).
C1_KeepsExactlyNotRejected ==
    /\ c_pc # "raised"
    /\ c_pc \in {"loop", "returned"} =>
         LET expected == SelectSeq(SubSeq(c_data, 1, c_idx - 1), NotRejected)
         IN  /\ Len(cleaned_data) = Len(expected)
             /\ \A j \in 1..Len(expected) :
                  /\ cleaned_data[j].sale_date = expected[j].sale_date
                  /\ cleaned_data[j].product_name
                       = Title(Strip(PyStrOf(expected[j].product_name)))

\* C2: clean_sales_data never raises: whatever the record, it is kept or
\* counted as invalid and the loop goes on to the next record.
C2_NeverRaises ==
    /\ c_pc # "raised"
    /\ c_pc \in {"loop", "returned"} =>
         Len(cleaned_data) + invalid_records = c_idx - 1

\* C3: every kept record has sales_amount > 0, quantity > 0 and a sale_date
\* that parses; a record kept from a source quantity <= 0 has quantity 1 and
\* one kept from a source quantity > 0 has that quantity.
C3_CleanRecordInvariant ==
    [][clean_sales_data_step /\ Len(cleaned_data') > Len(cleaned_data) =>
         LET src == c_data[c_idx]
             rec == cleaned_data'[Len(cleaned_data')]
         IN  /\ FloatGtZero(rec.sales_amount)
             /\ rec.quantity > 0
             /\ Strptime(rec.sale_date).exc = "none"
             /\ SourceQtyHalves(src.quantity) <= 0 => rec.quantity = 1
             /\ SourceQtyHalves(src.quantity) > 0 =>
                  2 * rec.quantity = SourceQtyHalves(src.quantity)]_vars

\* a clean record, in the words of the data model: sales_amount > 0,
\* quantity > 0 and a sale_date that parses
IsCleanRecord(rec) ==
    /\ FloatGtZero(rec.sales_amount)
    /\ rec.quantity > 0
    /\ "sale_date" \in DOMAIN rec
    /\ Strptime(rec.sale_date).exc = "none"

\* the fields a record had when it was passed in are the fields it has now
SameSourceFields(rec, rec0) == \A f \in DOMAIN rec0 : f \in DOMAIN rec /\ rec[f] = rec0[f]

\* total_value, sale_year and sale_quarter of an enriched record follow the
\* formulas of the data model
DerivedFieldsMatch(rec) ==
    LET dt == Strptime(rec.sale_date).val
    IN  /\ rec.sales_amount.k = "num" =>
             rec.total_value = FNum(rec.sales_amount.h * rec.quantity)
        /\ rec.sale_year = PyInt(dt.year)
        /\ \E q \in 1..4 : /\ rec.sale_quarter = PyStr(<<"Q", Digits[q + 1]>>)
                           /\ 3 * (q - 1) < dt.month /\ dt.month <= 3 * q

C5_UnparsedDateFallsBack ==
    /\ e_pc # "raised"
    /\ \A i \in 1..(e_idx - 1) :
         Strptime(e_data[i].sale_date).exc # "none" =>
            /\ e_data[i].sale_month = PyNone
            /\ e_data[i].sale_year = PyNone
            /\ e_data[i].sale_quarter = PyNone

RECURSIVE SumSeq(_)
SumSeq(xs) == IF xs = <<>> THEN 0 ELSE Head(xs) + SumSeq(Tail(xs))

\* over the records of a_data whose field has the value key: their indices,
\* the sum of their sales_amount (in halves) and the sum of their quantity
IndicesOf(field, key) == {i \in 1..Len(a_data) : a_data[i][field] = key}
RECURSIVE FloatSumHalves(_)
FloatSumHalves(xs) ==
    IF xs = <<>> THEN 0
    ELSE RoundFloat(FloatSumHalves(SubSeq(xs, 1, Len(xs) - 1)) + xs[Len(xs)])
\* the float sum, taken from 0.0 in input order, of the sales_amount of the
\* records of the key
RevenueOf(field, key) ==
    LET recs == SelectSeq(a_data, LAMBDA r : r[field] = key)
    IN  FloatSumHalves([i \in 1..Len(recs) |-> recs[i].sales_amount.h])
QuantityOf(field, key) ==
    SumSeq([i \in 1..Len(a_data) |->
              IF a_data[i][field] = key THEN a_data[i].quantity ELSE 0])
RegionReturned == a_pc \in {"product_loop", "returned"}

\* C6: aggregate_sales_by_region returns one row per distinct region of the
\* input (none for an empty input), with total_sales and product_count both
\* the number of records of the region, total_revenue and total_quantity the
\* sums over them, and the averages total_revenue / total_sales and
\* total_quantity / total_sales.
C6_RegionAggregates ==
    RegionReturned =>
        /\ {region_result[j].region : j \in 1..Len(region_result)}
             = {a_data[i].region : i \in 1..Len(a_data)}
        /\ Len(region_result) = Cardinality({a_data[i].region : i \in 1..Len(a_data)})
        /\ \A j \in 1..Len(region_result) :
             LET row == region_result[j]
                 n == Cardinality(IndicesOf("region", row.region))
             IN  /\ row.total_sales = n
                 /\ row.product_count = n
                 /\ row.total_revenue = FNum(RevenueOf("region", row.region))
                 /\ row.total_quantity = QuantityOf("region", row.region)
                 /\ row.avg_sale_amount.k = "num"
                 /\ row.avg_sale_amount.q.den > 0
                 /\ row.avg_sale_amount.q.num * 2 * n
                      = RevenueOf("region", row.region) * row.avg_sale_amount.q.den
                 /\ row.avg_quantity.q.den > 0
                 /\ row.avg_quantity.q.num * n
                      = QuantityOf("region", row.region) * row.avg_quantity.q.den

\* C6 witness: two region rows have been returned, one of them for several
\* records of a single product
C6_Witness ==
    /\ RegionReturned
    /\ Len(region_result) = 2
    /\ \E j \in 1..2 :
         /\ region_result[j].product_count >= 2
         /\ Cardinality({a_data[i].product_name :
                           i \in IndicesOf("region", region_result[j].region)}) = 1

\* C7: aggregate_sales_by_product returns one row per distinct product_name,
\* and region_count of a row is the number of distinct regions among the
\* records of the product, between 1 and total_sales.
C7_DistinctRegionCount ==
    a_pc = "returned" =>
        /\ {product_result[j].product_name : j \in 1..Len(product_result)}
             = {a_data[i].product_name : i \in 1..Len(a_data)}
        /\ Len(product_result)
             = Cardinality({a_data[i].product_name : i \in 1..Len(a_data)})
        /\ \A j \in 1..Len(product_result) :
             LET row == product_result[j]
                 idxs == IndicesOf("product_name", row.product_name)
             IN  /\ row.region_count = Cardinality({a_data[i].region : i \in idxs})
                 /\ 1 <= row.region_count
                 /\ row.region_count <= row.total_sales
                 /\ row.total_sales = Cardinality(idxs)

\* C7 witness: a product sold three times in two regions
C7_Witness ==
    /\ a_pc = "returned"
    /\ \E j \in 1..Len(product_result) :
         product_result[j].total_sales = 3 /\ product_result[j].region_count = 2

\* index of the first record of a product in the input
FirstSeen(product) ==
    CHOOSE i \in IndicesOf("product_name", product) :
        \A k \in IndicesOf("product_name", product) : i <= k

\* C8: the list aggregate_sales_by_product returns is in non-increasing order
\* of total_revenue, and rows of equal total_revenue are in the order in which
\* their product_name first appears in the input.
C8_SortedStable ==
    a_pc = "returned" =>
        \A j, k \in 1..Len(product_result) :
            j < k =>
               /\ product_result[j].total_revenue.h >= product_result[k].total_revenue.h
               /\ product_result[j].total_revenue = product_result[k].total_revenue =>
                    FirstSeen(product_result[j].product_name)
                      < FirstSeen(product_result[k].product_name)

\* C8 witness: three rows returned, the sort has moved a row, and two rows of
\* equal total_revenue are among them
C8_Witness ==
    /\ a_pc = "returned"
    /\ Len(product_result) = 3
    /\ product_result # product_aggregates
    /\ \E j, k \in 1..3 :
         j < k /\ product_result[j].total_revenue = product_result[k].total_revenue

RegionRowsOf(records) == [i \in 1..Len(records) |-> RegionRow(records[i])]

\* C9: load_product_aggregates called with confirm_delete = False raises the
\* configuration error (ValueError) without having sent any command to the
\* store, and the three tables are as they were.
C9_RefusesUnconfirmed ==
    (l_op = "product" /\ ~confirm_delete) =>
        /\ l_pc \in {"start", "raised"}
        /\ l_pc = "raised" => l_exc = "ValueError"
        /\ commands = <<>>
        /\ TablesNow = tbl0

\* C9 witness: the call has raised, with rows to load and rows stored
C9_Witness ==
    /\ l_op = "product" /\ ~confirm_delete
    /\ l_pc = "raised"
    /\ l_data # <<>>
    /\ tbl_product_aggregates # <<>>

\* C10 (as stated): load_region_aggregates with confirm_delete = True deletes
\* before the first insert and, once it has returned, the table holds exactly
\* the rows passed in; with confirm_delete = False no stored row is deleted
\* and, once the call is over without a loss of the connection, the passed
\* rows are in the table on top of the rows stored before.
C10_InsertsOnTop ==
    l_op = "region" =>
        /\ confirm_delete =>
             /\ commands # <<>> => commands[1] = "DELETE"
             /\ l_pc = "returned" => tbl_region_aggregates = RegionRowsOf(l_data)
        /\ ~confirm_delete =>
             /\ \A i \in 1..Len(commands) : commands[i] # "DELETE"
             /\ Len(tbl_region_aggregates) >= Len(tbl0.region_aggregates)
             /\ SubSeq(tbl_region_aggregates, 1, Len(tbl0.region_aggregates))
                  = tbl0.region_aggregates
             /\ (l_pc \in {"returned", "raised"} /\ l_exc # "OperationalError") =>
                  tbl_region_aggregates = tbl0.region_aggregates \o RegionRowsOf(l_data)

\* C10 (amended): as above, but with confirm_delete = False the passed rows
\* are on top of the stored rows once the call has returned; region is
\* UNIQUE, so the call raises the storage error at the first passed row whose
\* region is already in the table, with the rows before it inserted.
C10_DeleteThenInsert ==
    l_op = "region" =>
        /\ confirm_delete =>
             /\ commands # <<>> => commands[1] = "DELETE"
             /\ \A i \in 2..Len(commands) : commands[i] = "INSERT"
             /\ l_pc = "insert" =>
                  tbl_region_aggregates = RegionRowsOf(SubSeq(l_data, 1, l_idx - 1))
             /\ l_pc = "returned" => tbl_region_aggregates = RegionRowsOf(l_data)
        /\ ~confirm_delete =>
             /\ \A i \in 1..Len(commands) : commands[i] # "DELETE"
             /\ Len(tbl_region_aggregates) >= Len(tbl0.region_aggregates)
             /\ SubSeq(tbl_region_aggregates, 1, Len(tbl0.region_aggregates))
                  = tbl0.region_aggregates
             /\ l_pc = "returned" =>
                  tbl_region_aggregates = tbl0.region_aggregates \o RegionRowsOf(l_data)
             /\ l_exc = "IntegrityError" =>
                  /\ tbl_region_aggregates
                       = tbl0.region_aggregates \o RegionRowsOf(SubSeq(l_data, 1, l_idx - 1))
                  /\ \E i \in 1..Len(tbl_region_aggregates) :
                       tbl_region_aggregates[i].region = l_data[l_idx].region

\* C10 witness: a call with confirm_delete = False has returned after
\* inserting a row on top of a stored row
C10_Witness ==
    /\ l_op = "region" /\ ~confirm_delete
    /\ l_pc = "returned"
    /\ l_data # <<>>
    /\ tbl0.region_aggregates # <<>>

\* the sales fields of a stored row, without the id the store gave it
SalesFieldsOf(row) == DictDel(row, "id")

\* C11 (as stated): inserting the same sales row twice through
\* load_sales_data, in one call or in two successive calls, adds at most one
\* row to sales_data: no two rows of the table hold the same sales fields.
C11_SameRowStoredOnce ==
    l_op = "sales" =>
        \A i, j \in 1..Len(tbl_sales_data) :
            SalesFieldsOf(tbl_sales_data[i]) = SalesFieldsOf(tbl_sales_data[j]) => i = j

\* the load phase of the run has completed
LoadCompleted == p_pc \in {"validate", "health_check", "success"}

\* C12 (as stated): a load phase run with the pipeline's default calling
\* convention, also on a store that holds the rows of an earlier complete or
\* partially failed load, meets no storage error of its own making (none but
\* a loss of the connection), and once it has completed region_aggregates and
\* product_aggregates hold exactly the newly computed rows, one per key.
C12_RerunLeavesNewAggregates ==
    /\ (InLoaderCall /\ l_pc = "raised") => l_exc = "OperationalError"
    /\ LoadCompleted =>
         /\ tbl_region_aggregates = RegionTableOf(region_result)
         /\ tbl_product_aggregates = ProductTableOf(product_result)

\* get_data_summary has returned in validate_data, and the checks are done
ValidationMessages ==
    {"No sales records found in database", "Total revenue should be positive",
     "No regional data found", "No product data found"}
Validated ==
    \/ p_pc \in {"health_check", "success"}
    \/ p_pc \in {"validate", "failed"} /\ p_exc \in ValidationMessages

\* the sum of sales_amount over the rows of sales_data, as a float
RevenueInStore ==
    IF \E i \in 1..Len(tbl_sales_data) : tbl_sales_data[i].sales_amount.k # "num"
    THEN FNaN
    ELSE FNum(RoundFloat(SumSeq([i \in 1..Len(tbl_sales_data) |->
                                   tbl_sales_data[i].sales_amount.h])))

\* C13: whatever the store holds, the summary get_data_summary returns has
\* sales_records, regions and products equal to the numbers of rows of the
\* three tables as they are now and total_revenue equal to the sum of
\* sales_amount over the rows of sales_data, 0.0 when the table is empty (the
\* call returns, it does not raise); it is taken anew from the store, not
\* from the summary returned before.
C13_SummaryOfStore ==
    Validated =>
        /\ summary # NoSummary
        /\ summary.sales_records = Len(tbl_sales_data)
        /\ summary.regions = Len(tbl_region_aggregates)
        /\ summary.products = Len(tbl_product_aggregates)
        /\ summary.total_revenue = RevenueInStore
        /\ tbl_sales_data = <<>> => summary.total_revenue = FNum(0)

\* C13 witness: a summary has been returned of a store with two sales rows of
\* a sum above 0, one region row and two product rows
C13_Witness ==
    /\ Validated
    /\ summary.sales_records = 2
    /\ summary.regions = 1
    /\ summary.products = 2
    /\ summary.total_revenue.k = "num"
    /\ summary.total_revenue.h > 0

\* total_revenue <= 0
RevenueNotPositive(s) ==
    \/ s.total_revenue.k = "num" /\ s.total_revenue.h <= 0
    \/ s.total_revenue.k = "ninf"

\* C14: validate_data raises if and only if the summary has sales_records = 0,
\* or total_revenue <= 0, or regions = 0, or products = 0, and returns success
\* otherwise; the error raised is that of the first of these, in this order,
\* that the summary violates.
C14_ValidatorChecks ==
    Validated =>
        /\ (p_exc \in ValidationMessages)
             <=> \/ summary.sales_records = 0
                 \/ RevenueNotPositive(summary)
                 \/ summary.regions = 0
                 \/ summary.products = 0
        /\ (p_exc = "No sales records found in database") <=> summary.sales_records = 0
        /\ (p_exc = "Total revenue should be positive")
             <=> summary.sales_records # 0 /\ RevenueNotPositive(summary)
        /\ (p_exc = "No regional data found")
             <=> /\ summary.sales_records # 0 /\ ~RevenueNotPositive(summary)
                 /\ summary.regions = 0
        /\ (p_exc = "No product data found")
             <=> /\ summary.sales_records # 0 /\ ~RevenueNotPositive(summary)
                 /\ summary.regions # 0 /\ summary.products = 0
        /\ (p_exc \notin ValidationMessages) => p_exc = "none"

\* C14 witness: the error raised is that of total_revenue although regions
\* and products are 0 as well
C14_Witness ==
    /\ Validated
    /\ p_exc = "Total revenue should be positive"
    /\ summary.regions = 0
    /\ summary.products = 0

\* C15 (as stated): a run ends as a success only after Extractor, Cleaner,
\* Enricher, Aggregator, Loader and Validator have each run to completion, in
\* this order, no stage having started before the one before it had finished;
\* the summary of a successful run passes the four checks of the Validator.
C15_SuccessOnlyAfterValidator ==
    /\ c_pc # "idle" => (p_log # <<>> /\ p_log[1] = "Extractor")
    /\ e_pc # "idle" => c_pc = "returned"
    /\ a_pc # "idle" => e_pc = "returned"
    /\ l_pc # "idle" => a_pc = "returned"
    /\ p_pc \in {"validate", "health_check"} => p_log[Len(p_log)] \in {"Loader", "Validator"}
    /\ p_pc = "success" =>
         /\ p_log = <<"Extractor", "Cleaner", "Enricher", "Aggregator", "Loader",
                      "Validator">>
         /\ summary.sales_records # 0
         /\ ~RevenueNotPositive(summary)
         /\ summary.regions # 0
         /\ summary.products # 0

\* the table a Loader call writes, now and when the call began, and the rows
\* the call makes of its first n records
TableOfCall ==
    CASE l_op = "sales" -> tbl_sales_data
      [] l_op = "region" -> tbl_region_aggregates
      [] l_op = "product" -> tbl_product_aggregates
TableOfCallBefore ==
    CASE l_op = "sales" -> tbl0.sales_data
      [] l_op = "region" -> tbl0.region_aggregates
      [] l_op = "product" -> tbl0.product_aggregates
RowsOfCall(n) ==
    CASE l_op = "sales" ->
           [i \in 1..n |-> DictSet(SalesRow(l_data[i]),
                                   [id |-> Len(tbl0.sales_data) + i])]
      [] l_op = "region" -> [i \in 1..n |-> RegionRow(l_data[i])]
      [] l_op = "product" -> [i \in 1..n |-> ProductRow(l_data[i])]

\* C16: when the store fails on the k-th command of a Loader call, the call
\* raises that error, having sent each command once and none after the one
\* that failed; what the commands 1..k-1 did stays in the store (the delete,
\* if there was one, and the rows inserted) and no later row is inserted; the
\* other tables are as they were.
C16_PartialLoadStays ==
    (l_op \in {"sales", "region", "product"}
       /\ l_exc \in {"OperationalError", "IntegrityError"}) =>
        LET k == Len(commands)
            d == IF confirm_delete THEN 1 ELSE 0
        IN  /\ l_pc = "raised"
            /\ k >= 1
            /\ k = l_idx + d \/ (k = 1 /\ d = 1 /\ l_idx = 1)
            /\ loaded_count = l_idx - 1
            /\ \A i \in 1..k : commands[i] = (IF i = 1 /\ d = 1 THEN "DELETE" ELSE "INSERT")
            /\ TableOfCall = IF k = 1 THEN TableOfCallBefore
                             ELSE IF d = 1 THEN RowsOfCall(k - 2)
                             ELSE TableOfCallBefore \o RowsOfCall(k - 1)
            /\ l_op # "sales" => tbl_sales_data = tbl0.sales_data
            /\ l_op # "region" => tbl_region_aggregates = tbl0.region_aggregates
            /\ l_op # "product" => tbl_product_aggregates = tbl0.product_aggregates

\* C16 witness: load_sales_data of two rows on a table that held a row has
\* raised at its second command; the first row is stored, the second is not
C16_Witness ==
    /\ l_op = "sales"
    /\ l_pc = "raised"
    /\ l_exc = "OperationalError"
    /\ Len(l_data) = 2
    /\ Len(commands) = 2
    /\ Len(tbl0.sales_data) = 1
    /\ Len(tbl_sales_data) = 2

\* C17 (as stated): a run that feeds the generated records, all of an amount
\* above 0, through all stages yields a summary with sales_records no more
\* than the number of records generated, regions and products above 0, and
\* total_revenue the sum of sales_amount over the sales rows inserted.
C17_EndToEndAtMostSample ==
    (LoadCompleted /\ summary # NoSummary) =>
        /\ summary.sales_records <= SampleSize
        /\ summary.regions > 0
        /\ summary.products > 0
        /\ summary.total_revenue = RevenueInStore

\* C17 (amended): the summary of a run whose load phase has completed has
\* sales_records equal to the number of rows sales_data held when that load
\* phase began plus the number of records kept, which is no more than the
\* number generated, so sales_records is no more than that number when the
\* table was empty; regions and products are above 0; total_revenue is the
\* sum of sales_amount over all the rows sales_data holds.
C17_EndToEndOnTopOfStore ==
    (LoadCompleted /\ summary # NoSummary) =>
        /\ Len(a_data) <= SampleSize
        /\ summary.sales_records = Len(p_store0.sales_data) + Len(a_data)
        /\ p_store0.sales_data = <<>> => summary.sales_records <= SampleSize
        /\ summary.regions > 0
        /\ summary.products > 0
        /\ summary.total_revenue = RevenueInStore

\* C17 witness: a run has ended as a success on a store that held sales rows
\* when its load phase began
C17_Witness ==
    /\ p_pc = "success"
    /\ p_store0.sales_data # <<>>
    /\ summary.sales_records > SampleSize

\* ---------------------------------------------------------------------- C18
\* the orders a sequence of n records can be put in, and data put in one
PermsOf(n) == {f \in [1..n -> 1..n] : \A i, j \in 1..n : f[i] = f[j] => i = j}
Permute(data, f) == [i \in 1..Len(data) |-> data[f[i]]]
RowSet(rows) == {rows[i] : i \in 1..Len(rows)}
\* a row without the two fields computed from the float sum
CountsOf(row) == DictDel(DictDel(row, "total_revenue"), "avg_sale_amount")
CountSet(rows) == {CountsOf(rows[i]) : i \in 1..Len(rows)}
\* no addition of the running sum of a key rounds: every partial sum, taken
\* in the order of data, is a float
PartialSumsExact(xs) ==
    \A n \in 1..Len(xs) : RoundFloat(SumSeq(SubSeq(xs, 1, n))) = SumSeq(SubSeq(xs, 1, n))
SumsExact(data, field) ==
    \A k \in 1..Len(data) :
        LET recs == SelectSeq(data, LAMBDA r : r[field] = data[k][field])
        IN  PartialSumsExact([i \in 1..Len(recs) |-> recs[i].sales_amount.h])
NoRounding(data) == SumsExact(data, "region") /\ SumsExact(data, "product_name")

\* C18 (as stated): for every reordering of the input, aggregate_sales_by_region
\* returns the same rows with identical field values, and so does
\* aggregate_sales_by_product, the position of the rows aside.
C18_OrderIndependent ==
    a_pc = "returned" =>
        \A f \in PermsOf(Len(a_data)) :
            /\ RowSet(aggregate_sales_by_region(Permute(a_data, f))) = RowSet(region_result)
            /\ RowSet(aggregate_sales_by_product(Permute(a_data, f))) = RowSet(product_result)

\* C18 (amended): for every reordering of the input both aggregations return
\* rows for the same keys with identical total_sales, total_quantity,
\* product_count / region_count and avg_quantity; total_revenue and
\* avg_sale_amount are identical too when no addition of a running float sum
\* rounds in either order.  Row position may differ in both results.
C18_OrderIndependentUpToRounding ==
    a_pc = "returned" =>
        \A f \in PermsOf(Len(a_data)) :
            LET perm == Permute(a_data, f)
                regions == aggregate_sales_by_region(perm)
                products == aggregate_sales_by_product(perm)
            IN  /\ Len(regions) = Len(region_result)
                /\ Len(products) = Len(product_result)
                /\ CountSet(regions) = CountSet(region_result)
                /\ CountSet(products) = CountSet(product_result)
                /\ (NoRounding(a_data) /\ NoRounding(perm)) =>
                       /\ RowSet(regions) = RowSet(region_result)
                       /\ RowSet(products) = RowSet(product_result)

\* three records of one region and one product were aggregated whose float
\* sum is exact in input order, while some other order of them rounds
C18_Witness ==
    /\ a_pc = "returned"
    /\ Len(a_data) = 3
    /\ Len(region_result) = 1
    /\ Len(product_result) = 1
    /\ NoRounding(a_data)
    /\ \E f \in PermsOf(3) :
          /\ ~NoRounding(Permute(a_data, f))
          /\ aggregate_sales_by_region(Permute(a_data, f)) # region_result

\* ---------------------------------------------------------------------- C19
\* both calls are over; the run whose call ended last; the calls did not
\* overlap (the one began after the other had ended)
BothEnded == Len(r_events) = 4
LastRun == r_events[4].run
SerialOrder == BothEnded /\ r_events[1].run = r_events[2].run
RowsInTable == {r_table[i] : i \in 1..Len(r_table)}
RowsOfRun(r) == {RowOf(r_op, r_data[r][i]) : i \in 1..Len(r_data[r])}

CallInProgress == db_pc \notin {"idle", "done"}
InTransaction(conn) == conn.txn \in {"active", "failed", "aborted"}

\* C20: every execute_query / execute_command call works on a connection and
\* a cursor it opened itself; no connection is open and no transaction is in
\* progress outside the call that opened it, and no connection executes more
\* than one statement, so no transaction spans two calls.  Once the call has
\* returned or raised its connection and cursor are closed; a call that
\* returned has committed its statement; a call that raised a storage error
\* left nothing committed, its transaction rolled back (discarded at close when
\* the rollback itself failed).
C20_ScopedPerCall ==
    /\ db_conn # 0 => db_conns[db_conn].call = db_calls
    /\ \A i \in 1..Len(db_conns) :
          /\ db_conns[i].statements <= 1
          /\ (db_conns[i].open \/ db_conns[i].cursor = "open" \/ InTransaction(db_conns[i]))
                => (i = db_conn /\ CallInProgress)
          /\ \A j \in 1..Len(db_conns) : db_conns[i].call = db_conns[j].call => i = j
    /\ db_pc = "done" =>
          /\ db_outcome = "returned" <=> db_exc = "none"
          /\ db_outcome = "returned" =>
                /\ db_conn # 0
                /\ db_conns[db_conn].txn = "committed"
                /\ db_conns[db_conn].statements = 1
                /\ db_calls \in db_store
          /\ db_outcome = "raised" =>
                /\ db_calls \notin db_store
                /\ db_conn # 0 => db_conns[db_conn].txn \in {"none", "rolledback", "discarded"}
                /\ (db_conn # 0 /\ db_conns[db_conn].txn = "discarded") =>
                      db_conns[db_conn].statements = 1

\* a call returned and its statement is committed; the next call executed its
\* statement, raised a storage error and ended with the statement rolled back
\* and the connection closed
C20_Witness ==
    /\ db_pc = "done"
    /\ db_calls = 2
    /\ 1 \in db_store
    /\ db_outcome = "raised"
    /\ db_exc = "psycopg2.Error"
    /\ db_conn = 2
    /\ db_conns[2].statements = 1
    /\ db_conns[2].txn = "rolledback"
    /\ ~db_conns[2].open

\* ---------------------------------------------------------------------- C21
\* a call of the stage is in progress
Cleaning == c_pc = "loop"
Enriching == e_pc = "loop"
Aggregating == a_pc \in {"region_loop", "product_loop"}
Loading == l_pc \in {"start", "insert"}

\* what add_calculated_fields has done to the list it was passed: the list has
\* its length, the records handled have gained the derived fields and kept
\* their other fields, the records not yet handled are as passed
EnrichedInPlace ==
    /\ Len(e_data) = Len(e_data0)
    /\ \A i \in 1..Len(e_data) :
          /\ SameSourceFields(e_data[i], e_data0[i])
          /\ i < e_idx => e_data[i] # e_data0[i]
          /\ i > e_idx => e_data[i] = e_data0[i]

\* the list add_calculated_fields returned is the list the aggregations and
\* load_sales_data are given
SameListDownstream ==
    /\ p_pc \in {"aggregate", "load", "load_sales"} => a_data = e_data
    /\ p_pc = "load_sales" => l_data = e_data

\* a step of a run leaves alone the input of every stage whose call is in
\* progress, the Enricher's aside
InputsLeftAlone ==
    /\ Cleaning => c_data' = c_data
    /\ Aggregating => a_data' = a_data
    /\ Loading => l_data' = l_data
    /\ Enriching => /\ e_data0' = e_data0
                    /\ Len(e_data') = Len(e_data)
                    /\ \A i \in 1..Len(e_data) : i # e_idx => e_data'[i] = e_data[i]

\* C21: in a run, clean_sales_data leaves the raw records unchanged, the two
\* aggregations leave the enriched list and its records unchanged, the Loader
\* calls leave their input lists unchanged, and add_calculated_fields changes
\* the records of its input list in place and returns that list, which is
\* the list aggregated and then loaded into sales_data.
C21_OnlyEnricherMutates ==
    /\ [](EnrichedInPlace /\ SameListDownstream)
    /\ [][InputsLeftAlone]_vars

\* a run has loaded sales_data: the raw records were cleaned, the cleaned
\* records enriched in place, and the enriched list aggregated and loaded
C21_Witness ==
    /\ p_pc = "load_sales" /\ l_pc = "returned"
    /\ Len(c_data) = SampleSize
    /\ e_pc = "returned" /\ e_data # <<>>
    /\ e_data # e_data0
    /\ a_pc = "returned"
    /\ l_data = e_data
    /\ Len(tbl_sales_data) >= Len(e_data)

\* ---------------------------------------------------------------------- C22
\* sums over the rows of a result and over the input records; revenue is
\* summed exactly, in halves
SumOf(rows, field) == SumSeq([i \in 1..Len(rows) |-> rows[i][field]])
RevenueSum(rows) == SumSeq([i \in 1..Len(rows) |-> rows[i].total_revenue.h])
InputRevenue == SumSeq([i \in 1..Len(a_data) |-> a_data[i].sales_amount.h])
\* no row of either dict or result has zero sales
EveryRowHasSales ==
    /\ \A i \in 1..Len(region_aggregates) : region_aggregates[i].total_sales >= 1
    /\ \A i \in 1..Len(region_result) : region_result[i].total_sales >= 1
    /\ \A i \in 1..Len(product_aggregates) : product_aggregates[i].total_sales >= 1
    /\ \A i \in 1..Len(product_result) : product_result[i].total_sales >= 1
CountsPartition ==
    /\ SumOf(region_result, "total_sales") = Len(a_data)
    /\ SumOf(product_result, "total_sales") = Len(a_data)
    /\ SumOf(region_result, "total_quantity") = SumOf(a_data, "quantity")
    /\ SumOf(product_result, "total_quantity") = SumOf(a_data, "quantity")
RevenuePartitions ==
    /\ RevenueSum(region_result) = InputRevenue
    /\ RevenueSum(product_result) = InputRevenue

\* C22 (as stated): every region row and every product row has
\* total_sales >= 1, and total_sales, total_revenue and total_quantity summed
\* over the region rows equal the same sums over the product rows and the
\* totals of the input.
C22_PartitionTotals ==
    /\ EveryRowHasSales
    /\ a_pc = "returned" => (CountsPartition /\ RevenuePartitions)

\* C22 (amended): every row has total_sales >= 1, and total_sales and
\* total_quantity summed over the region rows equal the same sums over the
\* product rows and the totals of the input; the sums of total_revenue do so
\* when no addition of a running float sum rounds.
C22_PartitionTotalsUpToRounding ==
    /\ EveryRowHasSales
    /\ a_pc = "returned" =>
          /\ CountsPartition
          /\ NoRounding(a_data) => RevenuePartitions

\* three records of two regions and two products were aggregated with no
\* rounding, one region and one product holding two of them
C22_Witness ==
    /\ a_pc = "returned"
    /\ Len(a_data) = 3
    /\ Len(region_result) = 2
    /\ Len(product_result) = 2
    /\ NoRounding(a_data)
    /\ InputRevenue > 3
    /\ RevenuePartitions

====
